---------------------------- MODULE Spec2Model ----------------------------
(***************************************************************************)
(* The "space" demo of arete-examples (space-cpp/src/game.cpp) as a state  *)
(* machine: the GameState resource, the entities the systems spawn and     *)
(* despawn, and one action per per-frame system.                           *)
(*                                                                         *)
(* Units.  Time is in milliseconds and lengths are in thousandths of a     *)
(* world unit, so that speed (units per second) * delta_time (ms) is a     *)
(* length in thousandths.  Rates are per 1000 seconds.  Angles are in      *)
(* milliradians.                                                           *)
(***************************************************************************)
EXTENDS Integers, Sequences, FiniteSets, TLC

\* ------------------------------------------------------------ bounds

\* a play-through is cut off after this many frames
MaxFrames == 8
\* at most this many Enemy entities (live or being spawned) at a time
MaxEnemies == 2
\* at most this many Laser entities (live or being spawned) at a time
MaxLasers == 2
\* at most this many Grenade entities (live or being spawned) at a time
MaxGrenades == 1
\* a long play-through is cut off after this many frames
LongFrames == 23
\* a value an uninitialised GameState member may hold besides 0
Garbage == 7
\* the largest Health value the concurrent modify_health calls start from
MaxHealth == 3
\* at most this many concurrent modify_health calls on one Health
MaxCalls == 3
\* the largest damage of one modify_health call
MaxDamage == 2
\* GameState::start is applied at most this many times in a row
MaxStarts == 2

\* ------------------------------------------------------------ constants

STAGE_HALF_WIDTH == 9000
STAGE_LENGTH == 120000
ENEMY_DAMAGE_RADIUS == 900
UPGRADE_RADIUS == 2000
LASER_DAMAGE_RADIUS == 1500
LASER_DISTANCE == 70000
SECONDS_BETWEEN_WAVES == 5000
MAX_LASER_ALLY_COUNT == 20

GameStates == {"Start", "Running", "Ended"}

UpgradeType == {"Health", "Laser", "Grenade", "UberLaser"}

\* static_cast<int>(UpgradeType): the index into upgrade_timers
UpgradeIndex(type) ==
    CASE type = "Health" -> 0
      [] type = "Laser" -> 1
      [] type = "Grenade" -> 2
      [] type = "UberLaser" -> 3

\* ------------------------------------------------------------ wave table

\* EnemyDescription; turn_rate and max_angle in milliradians, spawn_rate in
\* spawns per 1000 seconds, scale in thousandths
EnemyDescription(smin, smax, turn, hp, dmg, rate, scale) ==
    [speed_min |-> smin, speed_max |-> smax, turn_rate |-> turn,
     max_angle |-> 1050, health |-> hp, damage |-> dmg,
     spawn_rate |-> rate, scale |-> scale]

\* UpgradeDescription; spawn_rate_inverse is 1.f / spawn_rate in ms, rounded
\* up to the next millisecond: the first timer value on the millisecond grid
\* for which spawn_timer >= 1.f / spawn_rate holds in float arithmetic
UpgradeDescription(type, speed, inverse) ==
    [type |-> type, speed_min |-> speed, speed_max |-> speed,
     spawn_rate_inverse |-> inverse]

WAVE_DESCRIPTIONS ==
    << [duration |-> 30000,
        enemies  |-> << EnemyDescription(10, 20, 1000, 100, 10, 5000, 1000),
                        EnemyDescription(120, 120, 0, 2000, 10, 120, 2000) >>,
        upgrades |-> << UpgradeDescription("Grenade", 15, 15000),
                        UpgradeDescription("Laser", 15, 8000) >>],
       [duration |-> 30000,
        enemies  |-> << EnemyDescription(20, 50, 180, 1, 1, 20000, 1000),
                        EnemyDescription(120, 120, 0, 2000, 10, 120, 2000) >>,
        upgrades |-> << UpgradeDescription("Health", 15, 33334),
                        UpgradeDescription("Grenade", 15, 8000),
                        UpgradeDescription("Laser", 15, 8000) >>],
       [duration |-> 35000,
        enemies  |-> << EnemyDescription(20, 20, 300, 1000, 50, 2000, 3000) >>,
        upgrades |-> << UpgradeDescription("Grenade", 15, 8000),
                        UpgradeDescription("Laser", 15, 8000),
                        UpgradeDescription("Health", 15, 33334) >>],
       [duration |-> 35000,
        enemies  |-> << EnemyDescription(15, 15, 1000, 1, 10, 50000, 1000),
                        EnemyDescription(20, 20, 0, 1500, 50, 1700, 3000),
                        EnemyDescription(120, 120, 0, 2000, 10, 120, 2000) >>,
        upgrades |-> << UpgradeDescription("UberLaser", 15, 100000),
                        UpgradeDescription("Grenade", 15, 8000),
                        UpgradeDescription("Laser", 15, 8000),
                        UpgradeDescription("Health", 15, 33334) >>],
       [duration |-> 60000,
        enemies  |-> << EnemyDescription(20, 20, 1000, 1, 10, 200000, 1000),
                        EnemyDescription(20, 45, 0, 1, 10, 50000, 1000),
                        EnemyDescription(20, 20, 200, 2000, 50, 800, 3000),
                        EnemyDescription(120, 120, 0, 2000, 10, 300, 2000) >>,
        upgrades |-> << UpgradeDescription("UberLaser", 15, 50000),
                        UpgradeDescription("Grenade", 15, 8000),
                        UpgradeDescription("Laser", 15, 8000),
                        UpgradeDescription("Health", 15, 33334) >>] >>

\* ------------------------------------------------------------ state

VARIABLES
    game_state,   \* RESOURCE(GameState)
    entities,     \* the live entities: what the queries iterate
    spawned,      \* entities passed to engine.spawn in this frame
    despawned,    \* ids passed to engine.despawn in this frame
    explosions,   \* spawn_explosion calls of this frame
    input,        \* InputState of this frame
    delta_time,   \* FrameConstants.delta_time of this frame
    schedule,     \* the order in which the scheduler runs the systems
    pc,           \* 0 between frames, else the position in schedule
    frame,        \* frames begun so far
    env,          \* the environment: frame times, inputs, randf() values
    health,       \* a Health that concurrent modify_health calls share
    calls         \* the calls of the function under study, in order

vars == << game_state, entities, spawned, despawned, explosions, input,
           delta_time, env, schedule, pc, frame, health, calls >>

\* ------------------------------------------------------------ helpers

Min(a, b) == IF a < b THEN a ELSE b

Max(a, b) == IF a > b THEN a ELSE b

Abs(a) == IF a < 0 THEN -a ELSE a

\* std::clamp
Clamp(v, lo, hi) == IF v < lo THEN lo ELSE IF v > hi THEN hi ELSE v

\* the elements of a finite set of entities as a sequence, by ascending id
RECURSIVE SeqOf(_)
SeqOf(S) ==
    IF S = {} THEN << >>
    ELSE LET e == CHOOSE a \in S : \A b \in S : a.id <= b.id
         IN  << e >> \o SeqOf(S \ {e})

\* ------------------------------------------------------------ GameState

\* AreteAtomicInt::fetch_add: the new value; the caller keeps the old one
fetch_add(value, op) == value + op

\* modify_health without the test that the Health was above 0 before
modify_health_any(value, modification) ==
    LET prev == value
    IN  [value  |-> fetch_add(value, modification),
         killed |-> prev + modification <= 0]

\* modify_health: the Health value after the call and what the call returns
modify_health(value, modification) ==
    LET prev == value
    IN  [value  |-> fetch_add(value, modification),
         killed |-> prev > 0 /\ prev + modification <= 0]

modify_score(gs, modification) ==
    [gs EXCEPT !.score = fetch_add(@, modification)]

\* GameState::start without the reset of laser_ally_count
start_keeps_allies(gs) ==
    [gs EXCEPT !.state = "Running",
               !.score = 0,
               !.wave = WAVE_DESCRIPTIONS[1],
               !.wave_timer = 0,
               !.wave_count = 0,
               !.upgrade_timers = [i \in 0..4 |-> 0],
               !.spawning_enemies = FALSE]

\* GameState::start leaving the state at the start menu
start_to_menu(gs) ==
    [gs EXCEPT !.state = "Start",
               !.score = 0,
               !.wave = WAVE_DESCRIPTIONS[1],
               !.wave_timer = 0,
               !.wave_count = 0,
               !.upgrade_timers = [i \in 0..4 |-> 0],
               !.laser_ally_count = 0,
               !.spawning_enemies = FALSE]

\* GameState::start
start(gs) ==
    [gs EXCEPT !.state = "Running",
               !.score = 0,
               !.wave = WAVE_DESCRIPTIONS[1],
               !.wave_timer = 0,
               !.wave_count = 0,
               !.upgrade_timers = [i \in 0..4 |-> 0],
               !.laser_ally_count = 0,
               !.spawning_enemies = FALSE]

\* start_next_wave carrying the overshoot of the timer into the next wave
start_next_wave_carry(gs) ==
    LET g == [gs EXCEPT !.wave_timer = @ - gs.wave.duration - SECONDS_BETWEEN_WAVES,
                        !.wave_count = @ + 1,
                        !.spawning_enemies = FALSE]
    IN  IF g.wave_count < Len(WAVE_DESCRIPTIONS)
        THEN [g EXCEPT !.wave = WAVE_DESCRIPTIONS[g.wave_count + 1]]
        ELSE g

\* start_next_wave without spawning_enemies = false
start_next_wave_spawning(gs) ==
    LET g == [gs EXCEPT !.wave_timer = -SECONDS_BETWEEN_WAVES,
                        !.wave_count = @ + 1]
    IN  IF g.wave_count < Len(WAVE_DESCRIPTIONS)
        THEN [g EXCEPT !.wave = WAVE_DESCRIPTIONS[g.wave_count + 1]]
        ELSE g

\* start_next_wave going back to the first wave after the last
start_next_wave_wrap(gs) ==
    LET g == [gs EXCEPT !.wave_timer = -SECONDS_BETWEEN_WAVES,
                        !.wave_count = @ + 1,
                        !.spawning_enemies = FALSE]
    IN  [g EXCEPT !.wave =
            WAVE_DESCRIPTIONS[(g.wave_count % Len(WAVE_DESCRIPTIONS)) + 1]]

start_next_wave(gs) ==
    LET g == [gs EXCEPT !.wave_timer = -SECONDS_BETWEEN_WAVES,
                        !.wave_count = @ + 1,
                        !.spawning_enemies = FALSE]
    IN  IF g.wave_count < Len(WAVE_DESCRIPTIONS)
        THEN [g EXCEPT !.wave = WAVE_DESCRIPTIONS[g.wave_count + 1]]
        ELSE g

\* ------------------------------------------------------------ entities

\* An entity is a record: its id, its kind (the components that tell it
\* apart), its Transform position, and its other components' fields.
\* DespawnOnGameRestart is TRUE on the entities that carry that component.

\* a Camera that carries DespawnOnGameRestart
CameraEntityTagged(id) ==
    [id |-> id, kind |-> "Camera", x |-> 0, z |-> 0,
     DespawnOnGameRestart |-> TRUE]

\* the Camera spawned by init_world
CameraEntity(id) ==
    [id |-> id, kind |-> "Camera", x |-> 0, z |-> 0,
     DespawnOnGameRestart |-> FALSE]

\* spawn_menu_texture
MenuEntity(id, asset_path) ==
    [id |-> id, kind |-> "Menu", asset_path |-> asset_path, x |-> 0, z |-> 0,
     DespawnOnGameRestart |-> TRUE]

\* the Player spawned without Health{ 100 }: a default Health
PlayerEntityNoHealth(id) ==
    [id |-> id, kind |-> "Player", x |-> 0, z |-> 0,
     fire_rate |-> 2, damage |-> 100, fire_timer |-> 0, health |-> 0,
     DespawnOnGameRestart |-> TRUE]

\* the Player spawned by update_game_state
PlayerEntity(id) ==
    [id |-> id, kind |-> "Player", x |-> 0, z |-> 0,
     fire_rate |-> 2, damage |-> 100, fire_timer |-> 0, health |-> 100,
     DespawnOnGameRestart |-> TRUE]

\* the SupportUnit spawned by spawn_ally
SupportEntity(id, px, pz, weapon_type, random_scale) ==
    [id |-> id, kind |-> "SupportUnit", x |-> px, z |-> pz - 2000,
     angle |-> 0, weapon |-> weapon_type, random_scale |-> random_scale,
     fire_timer |-> 0, health |-> 10, DespawnOnGameRestart |-> TRUE]

\* the Enemy spawned by spawn_enemy
EnemyEntity(id, desc, x, speed) ==
    [id |-> id, kind |-> "Enemy", x |-> x, z |-> STAGE_LENGTH,
     scale |-> desc.scale, damage |-> desc.damage, speed |-> speed,
     turn_rate |-> desc.turn_rate, angle |-> 0, max_angle |-> desc.max_angle,
     health |-> desc.health, DespawnOnGameRestart |-> TRUE]

\* the Upgrade spawned by spawn_upgrades
UpgradeEntity(id, desc, x, random_scale) ==
    [id |-> id, kind |-> "Upgrade", x |-> x, z |-> STAGE_LENGTH,
     speed |-> desc.speed_min, type |-> desc.type,
     random_scale |-> random_scale, DespawnOnGameRestart |-> TRUE]

\* the Laser spawned by spawn_player_weapons and spawn_support_lasers
LaserEntity(id, x, z, speed, damage) ==
    [id |-> id, kind |-> "Laser", x |-> x, z |-> z + 1000,
     velocity |-> speed, damage |-> damage, DespawnOnGameRestart |-> FALSE]

\* the UberLaser spawned by spawn_uber_laser
UberLaserEntity(id) ==
    [id |-> id, kind |-> "UberLaser", x |-> 0, z |-> -5000,
     velocity |-> 50, damage |-> 1000, DespawnOnGameRestart |-> FALSE]

\* the Grenade spawned by spawn_support_grenades
GrenadeEntity(id, x, z, speed, radius) ==
    [id |-> id, kind |-> "Grenade", x |-> x, y |-> 0, z |-> z,
     velocity_y |-> 25000, velocity_z |-> speed, damage |-> 300,
     damage_radius |-> radius, DespawnOnGameRestart |-> FALSE]

\* Query<...>: the live entities that carry the component
Query(kind) == {e \in entities : e.kind = kind}

\* Query<const Ally&, ...>: the Player and the SupportUnits carry Ally
QueryAlly == {e \in entities : e.kind \in {"Player", "SupportUnit"}}

\* the query matching the menus only
QueryDespawnMenus == {e \in entities : e.kind = "Menu"}

\* Query<const DespawnOnGameRestart&, const EntityId&>
QueryDespawn == {e \in entities : e.DespawnOnGameRestart}

Ids(S) == {e.id : e \in S}

\* the n smallest entity ids that neither a live nor a spawned entity holds
FreshIds(used, n) ==
    LET RECURSIVE Pick(_, _, _)
        Pick(k, m, acc) ==
            IF m = 0 THEN acc
            ELSE IF k \in used THEN Pick(k + 1, m, acc)
            ELSE Pick(k + 1, m - 1, Append(acc, k))
    IN  Pick(0, n, << >>)

UsedIds == Ids(entities) \cup Ids(spawned)

FreshId == FreshIds(UsedIds, 1)[1]

\* ------------------------------------------------------------ the frame

NoInput ==
    [key_space |-> [pressed |-> FALSE, pressed_this_frame |-> FALSE],
     touches |-> << >>,
     mouse |-> [is_present |-> FALSE, position |-> [x |-> 0, z |-> 0]]]

\* the space key goes down in this frame
SpaceEdge ==
    [NoInput EXCEPT !.key_space = [pressed |-> TRUE, pressed_this_frame |-> TRUE]]

\* the space key is held down since an earlier frame
SpaceHeld ==
    [NoInput EXCEPT !.key_space = [pressed |-> TRUE, pressed_this_frame |-> FALSE]]

\* one touch, pointing at the world position p (what
\* screen_position_to_world returns for it)
Touch(phase, p) ==
    [NoInput EXCEPT !.touches = << [phase |-> phase, position |-> p] >>]

\* two touches that begin in the same frame
TwoTouches(p) ==
    [NoInput EXCEPT !.touches = << [phase |-> "Began", position |-> p],
                                   [phase |-> "Began", position |-> p] >>]

\* a mouse pointing at the world position p
Mouse(p) ==
    [NoInput EXCEPT !.mouse = [is_present |-> TRUE, position |-> p]]

\* the systems, in the order game.cpp declares them
Systems ==
    << "player_movement", "update_support_units", "spawn_enemies",
       "update_enemies", "spawn_player_weapons", "spawn_support_weapons",
       "update_lasers", "update_uber_lasers", "update_grenades",
       "spawn_upgrades", "update_upgrades", "update_ally_health",
       "update_game_state" >>

\* the state a default-constructed GameState has: the members without an
\* initialiser hold any value
InitGameState ==
    { [state |-> "Start", score |-> 0,
       wave |-> [duration |-> g, enemies |-> << >>, upgrades |-> << >>],
       wave_timer |-> g, wave_count |-> g,
       upgrade_timers |-> [i \in 0..4 |-> g],
       laser_ally_count |-> g, spawning_enemies |-> FALSE] : g \in {0, Garbage} }

\* init_world: the Camera and the start menu
InitWorld == { CameraEntity(0), MenuEntity(1, "menu_start.glb") }

\* The state after construction and init_world, in the environment env: the
\* frame times and inputs the engine hands to the frames, the values randf()
\* returns, and the schedule.
InitIn(environment) ==
    /\ game_state \in InitGameState
    /\ entities = InitWorld
    /\ spawned = {}
    /\ despawned = {}
    /\ explosions = 0
    /\ input = NoInput
    /\ delta_time = 0
    /\ env = environment
    /\ schedule \in environment.schedules
    /\ pc = 0
    /\ frame = 0

\* the frame times and the inputs the environment gives frame f
FrameTimes(f) == env.delta_times[Min(f, Len(env.delta_times))]

FrameInputs(f) == env.inputs[Min(f, Len(env.inputs))]

\* the engine starts a frame: it samples the input and the frame time
BeginFrame ==
    /\ pc = 0
    /\ frame < env.frames
    /\ frame' = frame + 1
    /\ pc' = 1
    /\ input' \in FrameInputs(frame + 1)
    /\ delta_time' \in FrameTimes(frame + 1)
    /\ UNCHANGED << game_state, entities, spawned, despawned, explosions,
                    env, schedule, health, calls >>

\* a frame end that applies the spawns but not the despawns
EndFrameKeeps ==
    /\ pc = Len(schedule) + 1
    /\ pc' = 0
    /\ entities' = entities \cup spawned
    /\ spawned' = {}
    /\ despawned' = {}
    /\ explosions' = 0
    /\ input' = NoInput
    /\ delta_time' = 0
    /\ UNCHANGED << game_state, env, schedule, frame, health, calls >>

\* the engine ends a frame: the requested despawns and spawns take effect
EndFrame ==
    /\ pc = Len(schedule) + 1
    /\ pc' = 0
    /\ entities' = {e \in entities : e.id \notin despawned} \cup spawned
    /\ spawned' = {}
    /\ despawned' = {}
    /\ explosions' = 0
    /\ input' = NoInput
    /\ delta_time' = 0
    /\ UNCHANGED << game_state, env, schedule, frame, health, calls >>

\* it is the named system's turn in the frame
Turn(system) == pc \in 1..Len(schedule) /\ schedule[pc] = system

\* what a system leaves alone besides the game state and the entities
Advance ==
    /\ pc' = pc + 1
    /\ UNCHANGED << input, delta_time, env, schedule, frame, health, calls >>

\* the entities S with the entities of U put in place of those with their ids
Replace(S, U) == {e \in S : e.id \notin Ids(U)} \cup U

\* ------------------------------------------------------------ arithmetic

\* integer division that rounds toward zero, as a float-to-int conversion does
Div(a, b) == IF a >= 0 THEN a \div b ELSE -((-a) \div b)

\* std::sin and std::cos of an angle in milliradians, in thousandths, by
\* their Taylor polynomials (the angles used lie within +-1050)
Sin(a) ==
    LET a3 == Div(a * a * a, 1000000)
        a5 == Div(a3 * a * a, 1000000)
    IN  a - Div(a3, 6) + Div(a5, 120)

Cos(a) ==
    LET a2 == Div(a * a, 1000)
        a4 == Div(a2 * a2, 1000)
        a6 == Div(a4 * a2, 1000)
    IN  1000 - Div(a2, 2) + Div(a4, 24) - Div(a6, 720)

\* std::atan(opp / adj) in milliradians, for adj > 0
Atan(opp, adj) ==
    LET sign == IF opp < 0 THEN -1 ELSE 1
        o == Abs(opp)
        Small(t) == Div(t * (785 + Div(273 * (1000 - t), 1000)), 1000)
    IN  IF o <= adj
        THEN sign * Small(Div(1000 * o, adj))
        ELSE sign * (1571 - Small(Div(1000 * adj, o)))

\* 3 * sin(angle) and 3 * cos(angle) of update_support_units, in thousandths,
\* for an angle in milliradians: tabulated at whole radians, 44 radians
\* being 7 turns
Sin3Table ==
    << 0, 2524, 2728, 423, -2270, -2877, -838, 1971, 2968, 1236, -1632,
       -3000, -1610, 1261, 2972, 1951, -864, -2884, -2253, 450, 2739, 2510,
       -27, -2539, -2717, -397, 2288, 2869, 813, -1991, -2964, -1212, 1654,
       3000, 1587, -1285, -2975, -1931, 889, 2891, 2235, -476, -2750, -2495 >>

Cos3Table ==
    << 3000, 1621, -1248, -2970, -1961, 851, 2881, 2262, -437, -2733, -2517,
       13, 2532, 2722, 410, -2279, -2873, -825, 1981, 2966, 1224, -1643,
       -3000, -1598, 1273, 2974, 1941, -876, -2888, -2244, 463, 2744, 2503,
       -40, -2546, -2711, -384, 2296, 2865, 800, -2001, -2962, -1200, 1665 >>

Sin3(angle) == Sin3Table[(Div(angle, 1000) % 44) + 1]

Cos3(angle) == Cos3Table[(Div(angle, 1000) % 44) + 1]

\* glm::distance(a, b) <= radius for two points on the ground plane; the
\* squares are taken only of differences within the radius
Within(ax, az, bx, bz, radius) ==
    /\ Abs(ax - bx) <= radius
    /\ Abs(az - bz) <= radius
    /\ (ax - bx) * (ax - bx) + (az - bz) * (az - bz) <= radius * radius

\* length * factor for a factor in thousandths, without leaving 32 bits
Scale(length, factor) ==
    Div(length, 1000) * factor + Div((length % 1000) * factor, 1000)

\* ------------------------------------------------------------ systems

\* SYSTEM(player_movement)
player_movement ==
    /\ Turn("player_movement")
    /\ LET Move(e) ==
             LET p1 == IF Len(input.touches) > 0
                       THEN input.touches[1].position
                       ELSE [x |-> e.x, z |-> e.z]
                 p2 == IF input.mouse.is_present
                       THEN input.mouse.position
                       ELSE p1
             IN  [e EXCEPT !.x = Clamp(p2.x, -STAGE_HALF_WIDTH, STAGE_HALF_WIDTH),
                           !.z = Clamp(p2.z, 0, 25000)]
       IN  entities' = {IF e.kind = "Player" THEN Move(e) ELSE e : e \in entities}
    /\ UNCHANGED << game_state, spawned, despawned, explosions >>
    /\ Advance

\* SYSTEM(update_support_units); get_first yields any Player the query holds
update_support_units ==
    /\ Turn("update_support_units")
    /\ IF Query("Player") = {}
       THEN UNCHANGED entities
       ELSE \E player \in Query("Player") :
              LET Orbit(e) ==
                    LET angle == e.angle + delta_time
                    IN  [e EXCEPT !.angle = angle,
                                  !.x = player.x - Sin3(angle),
                                  !.z = player.z - Cos3(angle)]
              IN  entities' = {IF e.kind = "SupportUnit" THEN Orbit(e) ELSE e :
                                 e \in entities}
    /\ UNCHANGED << game_state, spawned, despawned, explosions >>
    /\ Advance

\* the number of Enemy entities, live or passed to engine.spawn
EnemyCount == Cardinality({e \in entities \cup spawned : e.kind = "Enemy"})

\* spawn_enemies, lines 644-645: (int)expected_spawns, and
\* std::fmod(expected_spawns, 1.f) in millionths, for a spawn_rate per 1000 s
\* and a frame time in ms
ExpectedSpawns(desc, dt) ==
    LET whole == desc.spawn_rate * (dt \div 1000)
    IN  whole \div 1000
        + ((whole % 1000) * 1000 + desc.spawn_rate * (dt % 1000)) \div 1000000

ExpectedFraction(desc, dt) ==
    LET whole == desc.spawn_rate * (dt \div 1000)
    IN  ((whole % 1000) * 1000 + desc.spawn_rate * (dt % 1000)) % 1000000

\* spawn_enemies, line 645: spawn_count, for the draw randf() = draw / 1000000
spawn_count_at_most(desc, dt, draw) ==
    ExpectedSpawns(desc, dt)
        + (IF draw <= ExpectedFraction(desc, dt) THEN 1 ELSE 0)

spawn_count(desc, dt, draw) ==
    ExpectedSpawns(desc, dt)
        + (IF draw < ExpectedFraction(desc, dt) THEN 1 ELSE 0)

\* the descriptions spawn_enemies passes to spawn_enemy, in order, when the
\* i-th draw of randf() at line 645 is draws[i]; room is how many more Enemy
\* entities the bound allows
RECURSIVE SpawnList(_, _, _, _, _)
SpawnList(descs, i, draws, dt, room) ==
    IF i > Len(descs) THEN << >>
    ELSE LET n == Min(spawn_count(descs[i], dt, draws[i]), room)
         IN  [k \in 1..n |-> descs[i]]
             \o SpawnList(descs, i + 1, draws, dt, room - n)

\* spawn_enemy's speed for the draw randf() = frac / 1000
EnemySpeed(desc, frac) ==
    desc.speed_min + Div(frac * (desc.speed_max - desc.speed_min), 1000)

\* randf() at line 645 gives a value of [0, 1): the least and the greatest
\* are the draws that decide every comparison with a remainder
SpawnDraws == {0, 999999}

\* spawn_enemies, lines 640-650: the loop over the wave's descriptions, for
\* the draws of line 645
SpawnEnemies(draws) ==
    LET list == SpawnList(game_state.wave.enemies, 1, draws, delta_time,
                          env.max_enemies - EnemyCount)
        ids == FreshIds(UsedIds, Len(list))
    IN  \E draw \in [1..Len(list) -> env.enemy_lanes \X env.speeds] :
          spawned' = spawned \cup
            { EnemyEntity(ids[k], list[k], draw[k][1],
                          EnemySpeed(list[k], draw[k][2])) :
              k \in 1..Len(list) }

\* SYSTEM(spawn_enemies)
spawn_enemies ==
    /\ Turn("spawn_enemies")
    /\ IF ~game_state.spawning_enemies
       THEN UNCHANGED spawned
       ELSE \E draws \in [1..Len(game_state.wave.enemies) -> SpawnDraws] :
               SpawnEnemies(draws)
    /\ UNCHANGED << game_state, entities, despawned, explosions >>
    /\ Advance

\* update_enemies, lines 671-691: the enemy turned toward homing and moved
MoveEnemy(e, homing, dt) ==
    LET turning == /\ e.turn_rate > 0
                   /\ e.z < homing.z + 30000
                   /\ e.z > homing.z
        target_angle == Atan(e.x - homing.x, e.z - homing.z)
        step == Div(e.turn_rate * dt, 1000)
        angle == IF ~turning THEN e.angle
                 ELSE Clamp(IF target_angle > e.angle
                            THEN Min(e.angle + step, target_angle)
                            ELSE Max(e.angle - step, target_angle),
                            -e.max_angle, e.max_angle)
    IN  [e EXCEPT !.angle = angle,
                  !.x = @ - Scale(e.speed * dt, Sin(angle)),
                  !.z = @ - Scale(e.speed * dt, Cos(angle))]

\* update_enemies, lines 710-713: the enemy's damage box holds the ally
Overlaps(enemy, ally, damage_radius) ==
    /\ enemy.z - damage_radius <= ally.z
    /\ enemy.z + damage_radius >= ally.z
    /\ enemy.x - damage_radius <= ally.x
    /\ enemy.x + damage_radius >= ally.x

\* update_enemies, lines 668-723: the callback for one enemy, on the
\* entities, despawn requests and explosions st
EnemyStep(enemy, homing, dt, st) ==
    LET moved == MoveEnemy(enemy, homing, dt)
        st1 == [st EXCEPT !.entities = Replace(@, {moved})]
        damage_radius == Div(ENEMY_DAMAGE_RADIUS * moved.scale, 1000)
        hit == {a \in st.entities : /\ a.kind \in {"Player", "SupportUnit"}
                                    /\ Overlaps(moved, a, damage_radius)}
    IN  IF moved.z < -10000
        THEN [st1 EXCEPT !.despawned = @ \cup {moved.id}]
        ELSE IF homing.z + 3000 < moved.z - damage_radius
        THEN st1
        ELSE [entities |->
                Replace(st1.entities,
                    {[a EXCEPT !.health = modify_health(@, -moved.damage).value] :
                       a \in hit}),
              despawned |-> IF hit = {} THEN st1.despawned
                            ELSE st1.despawned \cup {moved.id},
              explosions |-> st1.explosions + Cardinality(hit)]

RECURSIVE EnemySteps(_, _, _, _)
EnemySteps(enemies, homing, dt, st) ==
    IF enemies = << >> THEN st
    ELSE EnemySteps(Tail(enemies), homing, dt,
                    EnemyStep(Head(enemies), homing, dt, st))

\* SYSTEM(update_enemies); get_first yields any Ally the query holds
update_enemies ==
    /\ Turn("update_enemies")
    /\ IF QueryAlly = {}
       THEN UNCHANGED << entities, despawned, explosions >>
       ELSE \E homing \in QueryAlly :
              LET st == EnemySteps(SeqOf(Query("Enemy")), homing, delta_time,
                                   [entities |-> entities,
                                    despawned |-> despawned,
                                    explosions |-> explosions])
              IN  /\ entities' = st.entities
                  /\ despawned' = st.despawned
                  /\ explosions' = st.explosions
    /\ UNCHANGED << game_state, spawned >>
    /\ Advance

\* the while loops of spawn_player_weapons, spawn_support_lasers and
\* spawn_support_grenades: how often the body runs, and the fire_timer left.
\* fire_timer and fire_rate_inverse are in sixths of a millisecond, in which
\* 1 / 1.2 s and 1 / 6 s are whole numbers.
Shots(fire_timer, fire_rate_inverse) == fire_timer \div fire_rate_inverse

TimerLeft(fire_timer, fire_rate_inverse) == fire_timer % fire_rate_inverse

\* SYSTEM(spawn_player_weapons)
spawn_player_weapons ==
    /\ Turn("spawn_player_weapons")
    /\ LET players == SeqOf(Query("Player"))
           RECURSIVE Fire(_, _)
           Fire(i, st) ==
               IF i > Len(players) THEN st
               ELSE LET e == players[i]
                        fire_timer == e.fire_timer + 6 * delta_time
                        fire_rate_inverse == 6000 \div e.fire_rate
                        room == env.max_lasers
                                - Cardinality({l \in entities \cup st.spawned :
                                                 l.kind = "Laser"})
                        n == Min(Shots(fire_timer, fire_rate_inverse), room)
                        ids == FreshIds(Ids(entities) \cup Ids(st.spawned), n)
                    IN  Fire(i + 1,
                          [entities |-> Replace(st.entities,
                              {[e EXCEPT !.fire_timer =
                                  TimerLeft(fire_timer, fire_rate_inverse)]}),
                           spawned |-> st.spawned \cup
                              {LaserEntity(ids[k], e.x, e.z, 100, e.damage) :
                                 k \in 1..n}])
           st == Fire(1, [entities |-> entities, spawned |-> spawned])
       IN  /\ entities' = st.entities
           /\ spawned' = st.spawned
    /\ UNCHANGED << game_state, despawned, explosions >>
    /\ Advance

\* spawn_support_lasers, lines 1574-1580, for random_scale in thousandths
SupportLaserInverse(random_scale) == 6000000 \div (2000 + 4 * random_scale)

SupportLaserDamage(random_scale) == 50 + Div((1000 - random_scale) * 150, 1000)

SupportLaserSpeed(random_scale) == 75 + Div(random_scale * 175, 1000)

\* spawn_support_grenades, lines 1602-1608
FIRE_RATE_INVERSE == 5000

GrenadeSpeed(random_scale) == 5 + Div(random_scale * 30, 1000)

GrenadeRadius(random_scale) == 5000 + (1000 - random_scale) * 5

\* SYSTEM(spawn_support_weapons)
spawn_support_weapons ==
    /\ Turn("spawn_support_weapons")
    /\ IF game_state.state # "Running"
       THEN UNCHANGED << entities, spawned >>
       ELSE LET units == SeqOf(Query("SupportUnit"))
                RECURSIVE Fire(_, _)
                Fire(i, st) ==
                    IF i > Len(units) THEN st
                    ELSE LET e == units[i]
                             fire_timer == e.fire_timer + 6 * delta_time
                             kind == IF e.weapon = "Laser" THEN "Laser" ELSE "Grenade"
                             fire_rate_inverse ==
                                 IF e.weapon = "Laser"
                                 THEN SupportLaserInverse(e.random_scale)
                                 ELSE FIRE_RATE_INVERSE
                             room == (IF e.weapon = "Laser" THEN env.max_lasers
                                      ELSE env.max_grenades)
                                     - Cardinality({l \in entities \cup st.spawned :
                                                      l.kind = kind})
                             n == Min(Shots(fire_timer, fire_rate_inverse), room)
                             ids == FreshIds(Ids(entities) \cup Ids(st.spawned), n)
                             Shot(id) ==
                                 IF e.weapon = "Laser"
                                 THEN LaserEntity(id, e.x, e.z,
                                          SupportLaserSpeed(e.random_scale),
                                          SupportLaserDamage(e.random_scale))
                                 ELSE GrenadeEntity(id, e.x, e.z,
                                          GrenadeSpeed(e.random_scale),
                                          GrenadeRadius(e.random_scale))
                         IN  Fire(i + 1,
                               [entities |-> Replace(st.entities,
                                   {[e EXCEPT !.fire_timer =
                                       TimerLeft(fire_timer, fire_rate_inverse)]}),
                                spawned |-> st.spawned \cup
                                   {Shot(ids[k]) : k \in 1..n}])
                st == Fire(1, [entities |-> entities, spawned |-> spawned])
            IN  /\ entities' = st.entities
                /\ spawned' = st.spawned
    /\ UNCHANGED << game_state, despawned, explosions >>
    /\ Advance

\* the damage contract with the score credited for every hit
DamageEveryHit(enemy_id, damage, st) ==
    LET enemy == CHOOSE e \in st.entities : e.id = enemy_id
        r == modify_health(enemy.health, -damage)
        hurt == [enemy EXCEPT !.health = r.value]
        st1 == [st EXCEPT !.game_state = modify_score(@, 1)]
    IN  IF r.killed
        THEN [st1 EXCEPT !.entities = Replace(@, {hurt}),
                         !.despawned = @ \cup {enemy_id},
                         !.explosions = @ + 1]
        ELSE [st1 EXCEPT !.entities = Replace(@, {hurt})]

\* The damage contract of update_lasers, update_uber_lasers and
\* update_grenades: one projectile damages one enemy.  st holds the entities,
\* the despawn requests, the explosions and the score.
Damage(enemy_id, damage, st) ==
    LET enemy == CHOOSE e \in st.entities : e.id = enemy_id
        r == modify_health(enemy.health, -damage)
        hurt == [enemy EXCEPT !.health = r.value]
    IN  IF r.killed
        THEN [entities |-> Replace(st.entities, {hurt}),
              despawned |-> st.despawned \cup {enemy_id},
              explosions |-> st.explosions + 1,
              game_state |-> modify_score(st.game_state, 1)]
        ELSE [st EXCEPT !.entities = Replace(@, {hurt})]

\* update_lasers, lines 814-822: the laser's segment of this frame meets the enemy
LaserHits(laser, next_z, enemy) ==
    /\ ~(Abs(enemy.x - laser.x) > LASER_DAMAGE_RADIUS)
    /\ ~(\/ enemy.z < laser.z - LASER_DAMAGE_RADIUS
         \/ enemy.z > next_z + LASER_DAMAGE_RADIUS)

\* update_lasers, lines 790-841: the callback for one laser
LaserStep(laser, dt, st) ==
    IF laser.z >= LASER_DISTANCE
    THEN [st EXCEPT !.despawned = @ \cup {laser.id}]
    ELSE LET next_z == laser.z + laser.velocity * dt
             targets == SeqOf({e \in st.entities :
                                 e.kind = "Enemy" /\ LaserHits(laser, next_z, e)})
             RECURSIVE Hit(_, _)
             Hit(i, s) ==
                 IF i > Len(targets) THEN s
                 ELSE LET d == Damage(targets[i].id, laser.damage, s)
                      IN  Hit(i + 1, [d EXCEPT !.explosions = @ + 1,
                                               !.despawned = @ \cup {laser.id}])
             after == Hit(1, st)
         IN  [after EXCEPT !.entities =
                 Replace(@, {[laser EXCEPT !.z = next_z]})]

\* the callbacks of update_lasers, one laser after the other
RECURSIVE LaserSteps(_, _, _)
LaserSteps(projectiles, dt, st) ==
    IF projectiles = << >> THEN st
    ELSE LaserSteps(Tail(projectiles), dt, LaserStep(Head(projectiles), dt, st))

\* a projectile system's effect on the state
Apply(st) ==
    /\ entities' = st.entities
    /\ despawned' = st.despawned
    /\ explosions' = st.explosions
    /\ game_state' = st.game_state

Current ==
    [entities |-> entities, despawned |-> despawned,
     explosions |-> explosions, game_state |-> game_state]

\* SYSTEM(update_lasers)
update_lasers ==
    /\ Turn("update_lasers")
    /\ Apply(LaserSteps(SeqOf(Query("Laser")), delta_time, Current))
    /\ UNCHANGED spawned
    /\ Advance

\* the callback for one uber laser, despawning it when it hits as a Laser is
UberLaserStepOnce(laser, dt, st) ==
    IF laser.z >= STAGE_LENGTH
    THEN [st EXCEPT !.despawned = @ \cup {laser.id}]
    ELSE LET next_z == laser.z + laser.velocity * dt
             targets == SeqOf({e \in st.entities :
                                 /\ e.kind = "Enemy"
                                 /\ ~(e.z > next_z + LASER_DAMAGE_RADIUS)})
             RECURSIVE Hit(_, _)
             Hit(i, s) ==
                 IF i > Len(targets) THEN s
                 ELSE LET d == Damage(targets[i].id, laser.damage, s)
                      IN  Hit(i + 1, [d EXCEPT !.despawned = @ \cup {laser.id}])
             after == Hit(1, st)
         IN  [after EXCEPT !.entities =
                 Replace(@, {[laser EXCEPT !.z = next_z]})]

\* update_uber_lasers, lines 851-890: the callback for one uber laser
UberLaserStep(laser, dt, st) ==
    IF laser.z >= STAGE_LENGTH
    THEN [st EXCEPT !.despawned = @ \cup {laser.id}]
    ELSE LET next_z == laser.z + laser.velocity * dt
             targets == SeqOf({e \in st.entities :
                                 /\ e.kind = "Enemy"
                                 /\ ~(e.z > next_z + LASER_DAMAGE_RADIUS)})
             RECURSIVE Hit(_, _)
             Hit(i, s) ==
                 IF i > Len(targets) THEN s
                 ELSE Hit(i + 1, Damage(targets[i].id, laser.damage, s))
             after == Hit(1, st)
         IN  [after EXCEPT !.entities =
                 Replace(@, {[laser EXCEPT !.z = next_z]})]

\* the callbacks of update_uber_lasers, one uber laser after the other
RECURSIVE UberLaserSteps(_, _, _)
UberLaserSteps(projectiles, dt, st) ==
    IF projectiles = << >> THEN st
    ELSE UberLaserSteps(Tail(projectiles), dt, UberLaserStep(Head(projectiles), dt, st))

\* SYSTEM(update_uber_lasers)
update_uber_lasers ==
    /\ Turn("update_uber_lasers")
    /\ Apply(UberLaserSteps(SeqOf(Query("UberLaser")), delta_time, Current))
    /\ UNCHANGED spawned
    /\ Advance

\* update_grenades, lines 902-950: the callback for one grenade; velocity_y
\* is in thousandths per second
GrenadeStep(grenade, dt, st) ==
    LET y == grenade.y + grenade.velocity_y * (dt \div 1000)
                       + Div(grenade.velocity_y * (dt % 1000), 1000)
        flown == [grenade EXCEPT !.y = y,
                                 !.z = @ + grenade.velocity_z * dt,
                                 !.velocity_y = @ - 40 * dt]
    IN  IF ~(y < 0)
        THEN [st EXCEPT !.entities = Replace(@, {flown})]
        ELSE LET landed == [flown EXCEPT !.y = 0]
                 targets == SeqOf({e \in st.entities :
                                     /\ e.kind = "Enemy"
                                     /\ Within(landed.x, landed.z, e.x, e.z,
                                               landed.damage_radius)})
                 RECURSIVE Hit(_, _)
                 Hit(i, s) ==
                     IF i > Len(targets) THEN s
                     ELSE Hit(i + 1, Damage(targets[i].id, landed.damage, s))
                 after == Hit(1, st)
             IN  [after EXCEPT !.entities = Replace(@, {landed}),
                               !.explosions = @ + 3,
                               !.despawned = @ \cup {landed.id}]

\* the callbacks of update_grenades, one grenade after the other
RECURSIVE GrenadeSteps(_, _, _)
GrenadeSteps(projectiles, dt, st) ==
    IF projectiles = << >> THEN st
    ELSE GrenadeSteps(Tail(projectiles), dt, GrenadeStep(Head(projectiles), dt, st))

\* SYSTEM(update_grenades)
update_grenades ==
    /\ Turn("update_grenades")
    /\ Apply(GrenadeSteps(SeqOf(Query("Grenade")), delta_time, Current))
    /\ UNCHANGED spawned
    /\ Advance

\* spawn_upgrades without the test of the player's health
SkippedAtCapOnly(desc, gs) ==
    desc.type = "Laser" /\ gs.laser_ally_count >= MAX_LASER_ALLY_COUNT

\* spawn_upgrades, lines 964-973: the description is skipped in this frame
Skipped(desc, gs) ==
    \/ desc.type = "Laser" /\ gs.laser_ally_count >= MAX_LASER_ALLY_COUNT
    \/ desc.type = "Health" /\ \E p \in Query("Player") : p.health = 100

\* spawn_upgrades, lines 975-981: the description's timer runs out in this frame
Due(desc, gs, dt) ==
    /\ ~Skipped(desc, gs)
    /\ gs.upgrade_timers[UpgradeIndex(desc.type)] + dt >= desc.spawn_rate_inverse

\* the upgrade timers when a spawn takes one interval off the timer
RECURSIVE UpgradeTimersCarry(_, _, _, _)
UpgradeTimersCarry(descs, i, gs, dt) ==
    IF i > Len(descs) THEN gs
    ELSE LET desc == descs[i]
             k == UpgradeIndex(desc.type)
         IN  UpgradeTimersCarry(descs, i + 1,
               IF Skipped(desc, gs) THEN gs
               ELSE [gs EXCEPT !.upgrade_timers[k] =
                        IF Due(desc, gs, dt)
                        THEN @ + dt - desc.spawn_rate_inverse
                        ELSE @ + dt],
               dt)

\* spawn_upgrades, lines 975-982: the upgrade timers after the loop
RECURSIVE UpgradeTimers(_, _, _, _)
UpgradeTimers(descs, i, gs, dt) ==
    IF i > Len(descs) THEN gs
    ELSE LET desc == descs[i]
             k == UpgradeIndex(desc.type)
         IN  UpgradeTimers(descs, i + 1,
               IF Skipped(desc, gs) THEN gs
               ELSE [gs EXCEPT !.upgrade_timers[k] =
                        IF Due(desc, gs, dt) THEN 0 ELSE @ + dt],
               dt)

\* the x positions and random_scale values randf() may give an upgrade
Lanes(desc) == env.upgrade_lanes[desc.type]

Scales(desc) == IF desc.type \in {"Laser", "Grenade"} THEN env.scales ELSE {0}

\* SYSTEM(spawn_upgrades)
spawn_upgrades ==
    /\ Turn("spawn_upgrades")
    /\ IF game_state.state # "Running"
       THEN UNCHANGED << game_state, spawned >>
       ELSE LET descs == game_state.wave.upgrades
                due == SelectSeq(descs, LAMBDA d : Due(d, game_state, delta_time))
                ids == FreshIds(UsedIds, Len(due))
                all_lanes == UNION {Lanes(due[k]) : k \in 1..Len(due)}
                all_scales == UNION {Scales(due[k]) : k \in 1..Len(due)}
            IN  /\ game_state' = UpgradeTimers(descs, 1, game_state, delta_time)
                /\ \E lane \in [1..Len(due) -> all_lanes],
                      scale \in [1..Len(due) -> all_scales] :
                     /\ \A k \in 1..Len(due) : /\ lane[k] \in Lanes(due[k])
                                               /\ scale[k] \in Scales(due[k])
                     /\ spawned' = spawned \cup
                          { UpgradeEntity(ids[k], due[k], lane[k], scale[k]) :
                            k \in 1..Len(due) }
    /\ UNCHANGED << entities, despawned, explosions >>
    /\ Advance

\* the Health pickup without the std::min of line 1069
health_pickup_uncapped(value) == value + 50

\* update_upgrades, lines 1068-1069: the Player's health after a Health pickup
health_pickup(value) == Min(value + 50, 100)

\* spawn_ally without the count of lines 1423-1425
spawn_ally_uncounted(st, id, player, weapon_type, random_scale) ==
    [st EXCEPT
       !.spawned = @ \cup {SupportEntity(id, player.x, player.z, weapon_type,
                                         random_scale)}]

\* spawn_ally: the SupportUnit is spawned behind the player
spawn_ally(st, id, player, weapon_type, random_scale) ==
    [st EXCEPT
       !.spawned = @ \cup {SupportEntity(id, player.x, player.z, weapon_type,
                                         random_scale)},
       !.game_state.laser_ally_count =
           IF weapon_type = "Laser" THEN @ + 1 ELSE @]

\* update_upgrades, lines 1046-1095: the callback for one upgrade; st holds
\* the entities, the spawns, the despawn requests, the explosions and the
\* game state
UpgradeStep(upgrade, player_id, dt, st) ==
    LET player == CHOOSE e \in st.entities : e.id = player_id
        moved == [upgrade EXCEPT !.z = @ - upgrade.speed * dt]
        st1 == [st EXCEPT !.entities = Replace(@, {moved})]
        id == FreshIds(Ids(st.entities) \cup Ids(st.spawned), 1)[1]
        st2 ==
            IF ~Within(moved.x, moved.z, player.x, player.z, UPGRADE_RADIUS)
            THEN st1
            ELSE LET picked ==
                       CASE moved.type = "Health" ->
                              [st1 EXCEPT !.entities = Replace(@,
                                 {[player EXCEPT !.health = health_pickup(@)]})]
                         [] moved.type = "UberLaser" ->
                              [st1 EXCEPT !.spawned = @ \cup {UberLaserEntity(id)}]
                         [] OTHER ->
                              spawn_ally(st1, id, player,
                                         IF moved.type = "Laser" THEN "Laser"
                                         ELSE "Grenade",
                                         moved.random_scale)
                 IN  [picked EXCEPT !.explosions = @ + 1,
                                    !.despawned = @ \cup {moved.id}]
    IN  IF moved.z < -15000
        THEN [st2 EXCEPT !.despawned = @ \cup {moved.id}]
        ELSE st2

RECURSIVE UpgradeSteps(_, _, _, _)
UpgradeSteps(upgrades, player_id, dt, st) ==
    IF upgrades = << >> THEN st
    ELSE UpgradeSteps(Tail(upgrades), player_id, dt,
                      UpgradeStep(Head(upgrades), player_id, dt, st))

\* SYSTEM(update_upgrades); get_first yields any Player the query holds
update_upgrades ==
    /\ Turn("update_upgrades")
    /\ IF Query("Player") = {}
       THEN UNCHANGED << game_state, entities, spawned, despawned, explosions >>
       ELSE \E player \in Query("Player") :
              LET st == UpgradeSteps(SeqOf(Query("Upgrade")), player.id, delta_time,
                          [entities |-> entities, spawned |-> spawned,
                           despawned |-> despawned, explosions |-> explosions,
                           game_state |-> game_state])
              IN  /\ entities' = st.entities
                  /\ spawned' = st.spawned
                  /\ despawned' = st.despawned
                  /\ explosions' = st.explosions
                  /\ game_state' = st.game_state
    /\ Advance

\* update_ally_health without the Player's branch of lines 1165-1169
update_ally_health_units ==
    /\ Turn("update_ally_health")
    /\ LET dead == {e \in QueryAlly : e.kind = "SupportUnit" /\ e.health <= 0}
           lasers == {e \in dead : e.weapon = "Laser"}
       IN  /\ despawned' = despawned \cup Ids(dead)
           /\ game_state' = [game_state EXCEPT
                               !.laser_ally_count = @ - Cardinality(lasers)]
    /\ UNCHANGED << entities, spawned, explosions >>
    /\ Advance

\* SYSTEM(update_ally_health)
update_ally_health ==
    /\ Turn("update_ally_health")
    /\ LET dead == {e \in QueryAlly : e.health <= 0}
           lasers == {e \in dead : e.kind = "SupportUnit" /\ e.weapon = "Laser"}
       IN  /\ despawned' = despawned \cup Ids(dead)
           /\ game_state' = [game_state EXCEPT
                               !.laser_ally_count = @ - Cardinality(lasers)]
    /\ UNCHANGED << entities, spawned, explosions >>
    /\ Advance

\* the confirm test with the key's level in the place of its edge
ConfirmPressed ==
    \/ input.key_space.pressed
    \/ (Len(input.touches) = 1 /\ input.touches[1].phase = "Began")

\* update_game_state, lines 1193-1194: the confirm edge
Confirm ==
    \/ input.key_space.pressed_this_frame
    \/ (Len(input.touches) = 1 /\ input.touches[1].phase = "Began")

\* update_game_state without the test of line 1191: startable in any state
StartableAlways(gs) == TRUE

\* update_game_state, line 1191: the game can be started
Startable(gs) == gs.state # "Running"

\* update_game_state, lines 1220-1222, comparing with >=
AdvanceWaveAtDuration(gs) ==
    IF gs.wave_timer >= gs.wave.duration THEN start_next_wave(gs) ELSE gs

\* update_game_state, lines 1220-1222
AdvanceWave(gs) ==
    IF gs.wave_timer > gs.wave.duration THEN start_next_wave(gs) ELSE gs

\* update_game_state with the test of the confirm edge before the test of
\* the state: a confirm edge starts a run from any state
update_game_state_confirm_first ==
    /\ Turn("update_game_state")
    /\ IF Confirm
       THEN /\ despawned' = despawned \cup Ids(QueryDespawn)
            /\ game_state' = start(game_state)
            /\ spawned' = spawned \cup {PlayerEntity(FreshId)}
       ELSE IF Startable(game_state)
       THEN UNCHANGED << game_state, spawned, despawned >>
       ELSE LET g1 == [game_state EXCEPT !.wave_timer = @ + delta_time]
                g2 == [g1 EXCEPT !.spawning_enemies = (g1.wave_timer >= 0)]
                g3 == AdvanceWave(g2)
            IN  IF g3.state = "Running" /\ Query("Player") = {}
                THEN /\ game_state' = [g3 EXCEPT !.state = "Ended",
                                                 !.spawning_enemies = FALSE]
                     /\ despawned' = despawned \cup Ids(QueryDespawn)
                     /\ spawned' = spawned \cup
                                     {MenuEntity(FreshId, "menu_restart.glb")}
                ELSE /\ game_state' = g3
                     /\ UNCHANGED << spawned, despawned >>
    /\ UNCHANGED << entities, explosions >>
    /\ Advance

\* SYSTEM(update_game_state)
update_game_state ==
    /\ Turn("update_game_state")
    /\ IF Startable(game_state)
       THEN IF Confirm
            THEN /\ despawned' = despawned \cup Ids(QueryDespawn)
                 /\ game_state' = start(game_state)
                 /\ spawned' = spawned \cup {PlayerEntity(FreshId)}
            ELSE UNCHANGED << game_state, spawned, despawned >>
       ELSE LET g1 == [game_state EXCEPT !.wave_timer = @ + delta_time]
                g2 == [g1 EXCEPT !.spawning_enemies = (g1.wave_timer >= 0)]
                g3 == AdvanceWave(g2)
            IN  IF g3.state = "Running" /\ Query("Player") = {}
                THEN /\ game_state' = [g3 EXCEPT !.state = "Ended",
                                                 !.spawning_enemies = FALSE]
                     /\ despawned' = despawned \cup Ids(QueryDespawn)
                     /\ spawned' = spawned \cup
                                     {MenuEntity(FreshId, "menu_restart.glb")}
                ELSE /\ game_state' = g3
                     /\ UNCHANGED << spawned, despawned >>
    /\ UNCHANGED << entities, explosions >>
    /\ Advance

\* ------------------------------------------------------------ environments

\* a world position
Pos(x, z) == [x |-> x, z |-> z]

\* the same lanes for every type of upgrade
AllTypes(lanes) == [t \in UpgradeType |-> lanes]

\* Frames of one second.  The first frame takes any kind of input; later
\* frames confirm, move the player to the side, or do nothing.
Skirmish ==
    [frames |-> MaxFrames,
     schedules |-> {Systems},
     delta_times |-> << {1000} >>,
     inputs |-> << {NoInput, SpaceEdge, SpaceHeld, Touch("Began", Pos(0, 0)),
                    Touch("Moved", Pos(0, 0)), TwoTouches(Pos(0, 0))},
                   {NoInput, SpaceEdge, Mouse(Pos(3000, 0))} >>,
     max_enemies |-> MaxEnemies,
     max_lasers |-> MaxLasers,
     max_grenades |-> MaxGrenades,
     enemy_lanes |-> {0, 3000},
     speeds |-> {1000},
     upgrade_lanes |-> AllTypes({0}),
     scales |-> {0, 1000}]

\* Long frames: of six seconds, in which the slow enemies reach the player in
\* one step, and of forty and a hundred seconds, longer than a wave.
Assault ==
    [frames |-> MaxFrames + 1,
     schedules |-> {Systems},
     delta_times |-> << {6000}, {40000, 100000}, {40000, 100000},
                        {40000, 100000}, {6000, 40000} >>,
     inputs |-> << {SpaceEdge}, {NoInput, SpaceEdge} >>,
     max_enemies |-> MaxEnemies,
     max_lasers |-> MaxLasers,
     max_grenades |-> MaxGrenades,
     enemy_lanes |-> {0, 3000},
     speeds |-> {1000},
     upgrade_lanes |-> AllTypes({0}),
     scales |-> {0}]

\* Four long frames take the game to the fourth wave, whose upgrades are
\* spawned in the fifth frame and reach the player in the sixth, of eight
\* seconds; from then on the frames are short.
Raid ==
    [frames |-> MaxFrames + 2,
     schedules |-> {Systems},
     delta_times |-> << {1000}, {40000}, {40000}, {100000}, {100000}, {8000},
                        {1000, 2000} >>,
     inputs |-> << {SpaceEdge}, {NoInput} >>,
     max_enemies |-> MaxEnemies,
     max_lasers |-> MaxLasers,
     max_grenades |-> MaxGrenades,
     enemy_lanes |-> {0, 3000},
     speeds |-> {1000},
     upgrade_lanes |-> AllTypes({0}),
     scales |-> {0, 1000}]

\* The first wave's Grenade upgrade is spawned in the second frame and
\* reaches the player in the third; the Laser upgrades pass the player by.
Bombard ==
    [frames |-> MaxFrames,
     schedules |-> {Systems},
     delta_times |-> << {1000}, {15000}, {8000}, {7000}, {2000}, {1000} >>,
     inputs |-> << {SpaceEdge}, {NoInput} >>,
     max_enemies |-> MaxEnemies,
     max_lasers |-> MaxLasers,
     max_grenades |-> MaxGrenades,
     enemy_lanes |-> {0},
     speeds |-> {500, 1000},
     upgrade_lanes |-> [AllTypes({STAGE_HALF_WIDTH}) EXCEPT !["Grenade"] = {0}],
     scales |-> {0, 1000}]

\* A long play-through in frames of eight seconds, in which every Laser
\* upgrade arrives at the player one frame after it was spawned, and the
\* other upgrades and the enemies pass the player by at the stage's edge.
Escort ==
    [frames |-> LongFrames,
     schedules |-> {Systems},
     delta_times |-> << {8000} >>,
     inputs |-> << {SpaceEdge}, {NoInput} >>,
     max_enemies |-> MaxEnemies,
     max_lasers |-> MaxLasers,
     max_grenades |-> MaxGrenades,
     enemy_lanes |-> {STAGE_HALF_WIDTH},
     speeds |-> {1000},
     upgrade_lanes |-> [AllTypes({STAGE_HALF_WIDTH}) EXCEPT !["Laser"] = {0}],
     scales |-> {0}]

\* A Grenade upgrade is picked up in the third frame; in the fifth, a short
\* one, a fast and large enemy of the first wave is spawned, and in the sixth
\* it arrives between the player and the support unit.
Ambush ==
    [frames |-> MaxFrames,
     schedules |-> {Systems},
     delta_times |-> << {1000}, {15000}, {8000}, {7000}, {100}, {1000} >>,
     inputs |-> << {SpaceEdge}, {NoInput} >>,
     max_enemies |-> MaxEnemies,
     max_lasers |-> MaxLasers,
     max_grenades |-> MaxGrenades,
     enemy_lanes |-> {-1500},
     speeds |-> {1000},
     upgrade_lanes |-> [AllTypes({STAGE_HALF_WIDTH}) EXCEPT !["Grenade"] = {0}],
     scales |-> {0}]

\* As Ambush, with a Laser upgrade in the place of the Grenade upgrade: the
\* enemy kills the support unit, a laser ally.
Decoy ==
    [Ambush EXCEPT
       !.upgrade_lanes = [AllTypes({STAGE_HALF_WIDTH}) EXCEPT !["Laser"] = {0}]]

\* A touch begins in every frame of the running game but the second, and
\* moves the player; the enemies pass by at the stage's edge.
Tap ==
    [frames |-> MaxFrames,
     schedules |-> {Systems},
     delta_times |-> << {1000} >>,
     inputs |-> << {SpaceEdge}, {NoInput, Touch("Began", Pos(3000, 0))},
                   {Touch("Began", Pos(0, 0)), Touch("Began", Pos(3000, 0))} >>,
     max_enemies |-> MaxEnemies,
     max_lasers |-> MaxLasers,
     max_grenades |-> MaxGrenades,
     enemy_lanes |-> {STAGE_HALF_WIDTH},
     speeds |-> {1000},
     upgrade_lanes |-> AllTypes({STAGE_HALF_WIDTH}),
     scales |-> {0}]

\* Two small enemies of the second wave, spawned in the fourth frame, hit
\* the player in the fifth; the Health upgrade's timer then runs, the
\* upgrade is spawned in the sixth frame and is picked up in the seventh.
Medic ==
    [frames |-> MaxFrames,
     schedules |-> {Systems},
     delta_times |-> << {1000}, {40000}, {5000}, {100}, {2400}, {31000},
                        {8000}, {1000} >>,
     inputs |-> << {SpaceEdge}, {NoInput} >>,
     max_enemies |-> MaxEnemies,
     max_lasers |-> MaxLasers,
     max_grenades |-> MaxGrenades,
     enemy_lanes |-> {0},
     speeds |-> {1000},
     upgrade_lanes |-> [AllTypes({STAGE_HALF_WIDTH}) EXCEPT !["Health"] = {0}],
     scales |-> {0}]

\* Frames of a hundred seconds, each longer than any wave: every frame ends
\* a wave, and the game outlasts the wave table.
Endurance ==
    [frames |-> MaxFrames,
     schedules |-> {Systems},
     delta_times |-> << {1000}, {100000} >>,
     inputs |-> << {SpaceEdge}, {NoInput} >>,
     max_enemies |-> MaxEnemies,
     max_lasers |-> MaxLasers,
     max_grenades |-> MaxGrenades,
     enemy_lanes |-> {STAGE_HALF_WIDTH},
     speeds |-> {0, 1000},
     upgrade_lanes |-> AllTypes({STAGE_HALF_WIDTH}),
     scales |-> {0}]

\* As in Raid the game comes to the last wave with an UberLaser upgrade on
\* the stage; the upgrade is two units short of the player after the sixth
\* frame and is picked up in the seventh, of four milliseconds, in which a
\* large enemy can be spawned in a lane far from the player; the frames
\* after that take a second.
Sweep ==
    [frames |-> MaxFrames + 2,
     schedules |-> {Systems},
     delta_times |-> << {1000}, {40000}, {40000}, {100000}, {100000}, {7864},
                        {4}, {1000} >>,
     inputs |-> << {SpaceEdge}, {NoInput} >>,
     max_enemies |-> MaxEnemies,
     max_lasers |-> MaxLasers,
     max_grenades |-> MaxGrenades,
     enemy_lanes |-> {6000},
     speeds |-> {1000},
     upgrade_lanes |-> [AllTypes({STAGE_HALF_WIDTH}) EXCEPT !["UberLaser"] = {0}],
     scales |-> {0}]

\* Frames of three tenths of a second, in which an enemy of speed 120 moves
\* 36 units and a player's laser 30: a fast enemy spawned in the third frame
\* and a laser fired in the fourth come past each other in the sixth.
Tunnel ==
    [frames |-> MaxFrames,
     schedules |-> {Systems},
     delta_times |-> << {1000}, {100}, {300} >>,
     inputs |-> << {SpaceEdge}, {NoInput} >>,
     max_enemies |-> MaxEnemies,
     max_lasers |-> MaxLasers,
     max_grenades |-> MaxGrenades,
     enemy_lanes |-> {0},
     speeds |-> {1000},
     upgrade_lanes |-> AllTypes({STAGE_HALF_WIDTH}),
     scales |-> {0}]

Environments ==
    {Skirmish, Assault, Raid, Bombard, Escort, Ambush, Endurance, Sweep,
     Tunnel, Decoy, Tap, Medic}

\* ------------------------------------------------------------ specification

Init ==
    /\ \E environment \in Environments : InitIn(environment)
    /\ health = [initial |-> 0, value |-> 0]
    /\ calls = << >>

Next ==
    \/ BeginFrame
    \/ player_movement
    \/ update_support_units
    \/ spawn_enemies
    \/ update_enemies
    \/ spawn_player_weapons
    \/ spawn_support_weapons
    \/ update_lasers
    \/ update_uber_lasers
    \/ update_grenades
    \/ spawn_upgrades
    \/ update_upgrades
    \/ update_ally_health
    \/ update_game_state
    \/ EndFrame

Spec == Init /\ [][Next]_vars

\* ------------------------------------------------------------ modify_health

\* Concurrent modify_health calls on one Health, as the callbacks of a
\* par_for_each make them.  A call is the atomic fetch_add, which hands the
\* caller the previous value, and then the comparison on the caller's own
\* copy of it.

\* a call that has not reached its fetch_add
Call(modification) ==
    [modification |-> modification, at |-> "called", prev |-> 0, killed |-> FALSE]

InitHealth ==
    /\ InitIn(Skirmish)
    /\ game_state.wave_timer = 0
    /\ \E h \in -1..MaxHealth, n \in 1..MaxCalls :
         /\ health = [initial |-> h, value |-> h]
         /\ calls \in [1..n -> {Call(-d) : d \in 1..MaxDamage}]

\* line 1351: call i's fetch_add
modify_health_fetch_add(i) ==
    /\ calls[i].at = "called"
    /\ health' = [health EXCEPT
                    !.value = modify_health(@, calls[i].modification).value]
    /\ calls' = [calls EXCEPT ![i].at = "fetched", ![i].prev = health.value]

\* line 1352: call i returns
modify_health_return(i) ==
    /\ calls[i].at = "fetched"
    /\ calls' = [calls EXCEPT
                   ![i].at = "returned",
                   ![i].killed =
                       modify_health(calls[i].prev, calls[i].modification).killed]
    /\ UNCHANGED health

FetchAdd ==
    /\ \E i \in DOMAIN calls : modify_health_fetch_add(i)
    /\ UNCHANGED << game_state, entities, spawned, despawned, explosions, input,
                    delta_time, env, schedule, pc, frame >>

Return ==
    /\ \E i \in DOMAIN calls : modify_health_return(i)
    /\ UNCHANGED << game_state, entities, spawned, despawned, explosions, input,
                    delta_time, env, schedule, pc, frame >>

NextHealth == FetchAdd \/ Return

SpecHealth == InitHealth /\ [][NextHealth]_vars

\* the calls that returned true, and the damage all the calls ask for
Killers == {i \in DOMAIN calls : calls[i].at = "returned" /\ calls[i].killed}

RECURSIVE TotalDamage(_)
TotalDamage(i) ==
    IF i = 0 THEN 0 ELSE TotalDamage(i - 1) - calls[i].modification

AllReturned == \A i \in DOMAIN calls : calls[i].at = "returned"

\* C1: of the concurrent modify_health calls on a Health, in any
\* interleaving, at most one returns true; once all have returned, exactly
\* one did if the Health started above 0 and the damages sum to at least its
\* value, and none did otherwise; a call that found the Health at or below
\* 0 returns false.
C1_OneKillCredit ==
    /\ Cardinality(Killers) <= 1
    /\ \A i \in DOMAIN calls :
         calls[i].at = "returned" /\ calls[i].prev <= 0 => ~calls[i].killed
    /\ AllReturned =>
         Cardinality(Killers) =
            IF health.initial > 0 /\ TotalDamage(Len(calls)) >= health.initial
            THEN 1 ELSE 0

\* three calls have returned, their damages exceed the Health, the last one
\* found it already below 0, and one call was told it killed
C1_Witness ==
    /\ AllReturned
    /\ Len(calls) = 3
    /\ health.initial > 0
    /\ health.value < -1
    /\ \E i \in DOMAIN calls : calls[i].prev < 0
    /\ Cardinality(Killers) = 1

\* ------------------------------------------------------------ scoring

Enemies(S) == {e \in S : e.kind = "Enemy"}

Players(S) == {e \in S : e.kind = "Player"}

\* the enemies whose health goes from above 0 to 0 or below in this step
Crossing ==
    {e \in Enemies(entities) :
       /\ e.health > 0
       /\ \E f \in Enemies(entities') : f.id = e.id /\ f.health <= 0}

\* the step is the call of GameState::start
Starting == Turn("update_game_state") /\ game_state.state # "Running" /\ Confirm

\* all systems of the frame have run
SystemsDone == pc = Len(schedule) + 1

ScorePerKill ==
    /\ \A e \in Enemies(entities), f \in Enemies(entities') :
         f.id = e.id => f.health <= e.health
    /\ Crossing # {} =>
         \/ Turn("update_lasers")
         \/ Turn("update_uber_lasers")
         \/ Turn("update_grenades")
    /\ Ids(Crossing) \subseteq despawned'
    /\ IF Starting
       THEN game_state'.score = 0
       ELSE game_state'.score = game_state.score + Cardinality(Crossing)

\* C2: in every step the score rises by the number of enemies whose health
\* crosses from above 0 to 0 or below in that step, each of which is
\* requested for despawn; an enemy's health never rises, so no enemy is
\* credited twice; only update_lasers, update_uber_lasers and
\* update_grenades make a health cross, so hits that do not kill, hits on a
\* dead enemy, collisions with allies and enemies leaving the stage leave the
\* score alone.
C2_ScorePerKill == [][ScorePerKill]_vars

\* two lasers of damage 100 have hit the same enemy of health 100 in
\* update_lasers: its health is -100, it is requested for despawn, and the
\* score is 1
C2_Witness ==
    /\ pc > 1
    /\ schedule[pc - 1] = "update_lasers"
    /\ game_state.score = 1
    /\ \E e \in Enemies(entities) :
         /\ e.health = -100
         /\ e.id \in despawned
    /\ Cardinality({l \in entities : l.kind = "Laser" /\ l.id \in despawned}) = 2

\* ------------------------------------------------------------ laser allies

\* C3: laser_ally_count is at most MAX_LASER_ALLY_COUNT in every state.
C3_LaserAllyCap == game_state.laser_ally_count <= MAX_LASER_ALLY_COUNT

LaserAllies(S) == {e \in S : e.kind = "SupportUnit" /\ e.weapon = "Laser"}

PickupAtCap ==
    Turn("update_upgrades") /\ game_state.laser_ally_count = MAX_LASER_ALLY_COUNT
        => /\ game_state'.laser_ally_count = MAX_LASER_ALLY_COUNT
           /\ LaserAllies(spawned') = LaserAllies(spawned)

\* C4: an update_upgrades call that starts with laser_ally_count at
\* MAX_LASER_ALLY_COUNT creates no laser SupportUnit and leaves
\* laser_ally_count unchanged.
C4_PickupAtCapRejected == [][PickupAtCap]_vars

\* ------------------------------------------------------------ waves

RunningUpdate == Turn("update_game_state") /\ game_state.state = "Running"

Exceeds == game_state.wave_timer + delta_time > game_state.wave.duration

WaveAdvance ==
    RunningUpdate =>
        /\ Exceeds =>
             /\ game_state'.wave_count = game_state.wave_count + 1
             /\ game_state'.wave_timer = -SECONDS_BETWEEN_WAVES
             /\ ~game_state'.spawning_enemies
        /\ game_state'.wave_timer <= game_state'.wave.duration

\* C5: an update_game_state call in Running in which wave_timer + delta_time
\* exceeds wave.duration raises wave_count by 1, sets wave_timer to
\* -SECONDS_BETWEEN_WAVES and spawning_enemies to false; after every
\* update_game_state call in Running, wave_timer <= wave.duration.
C5_WaveAdvance == [][WaveAdvance]_vars

\* a frame of 100 seconds has ended the first wave: the 70 seconds of
\* overshoot are gone
C5_Witness ==
    /\ SystemsDone
    /\ delta_time = 100000
    /\ game_state.state = "Running"
    /\ game_state.wave_count = 1
    /\ game_state.wave_timer = -SECONDS_BETWEEN_WAVES
    /\ ~game_state.spawning_enemies

WaveMonotonic ==
    game_state.state = "Running" /\ game_state'.state = "Running" =>
        /\ game_state'.wave_count >= game_state.wave_count
        /\ game_state'.wave_count <= game_state.wave_count + 1
        /\ ~(RunningUpdate /\ Exceeds) =>
             game_state'.wave_count = game_state.wave_count

\* C6: while the state is Running no step lowers wave_count, no step raises
\* it by more than 1, and only an update_game_state call in which
\* wave_timer + delta_time exceeds wave.duration changes it.
C6_WaveMonotonic == [][WaveMonotonic]_vars

\* a frame of 100 seconds, longer than the second and the third wave
\* together, has ended the second wave and no other
C6_Witness ==
    /\ SystemsDone
    /\ game_state.state = "Running"
    /\ delta_time = 100000
    /\ game_state.wave_count = 2
    /\ game_state.wave = WAVE_DESCRIPTIONS[3]
    /\ game_state.wave_timer = -SECONDS_BETWEEN_WAVES

\* ------------------------------------------------------------ start()

\* GameState values of every shape: any state, scores, waves, timers and
\* counters, the upgrade timers all zero, all running, or mixed
AnyGameState ==
    [state : GameStates,
     score : {0, 3},
     wave : {WAVE_DESCRIPTIONS[1], WAVE_DESCRIPTIONS[5],
             [duration |-> Garbage, enemies |-> << >>, upgrades |-> << >>]},
     wave_timer : {-SECONDS_BETWEEN_WAVES, 0, 1000},
     wave_count : {0, 2, Len(WAVE_DESCRIPTIONS)},
     upgrade_timers : {[i \in 0..4 |-> 0], [i \in 0..4 |-> 1000],
                       [i \in 0..4 |-> IF i = 1 THEN Garbage ELSE 0]},
     laser_ally_count : {0, MAX_LASER_ALLY_COUNT, MAX_LASER_ALLY_COUNT + 1},
     spawning_enemies : BOOLEAN]

InitStart ==
    /\ game_state \in AnyGameState
    /\ entities = InitWorld
    /\ spawned = {}
    /\ despawned = {}
    /\ explosions = 0
    /\ input = NoInput
    /\ delta_time = 0
    /\ env = Skirmish
    /\ schedule = Systems
    /\ pc = 0
    /\ frame = 0
    /\ health = [initial |-> 0, value |-> 0]
    /\ calls = << >>

\* a call of GameState::start on the game state
StartCall ==
    /\ Len(calls) < MaxStarts
    /\ game_state' = start(game_state)
    /\ calls' = Append(calls, [before |-> game_state, after |-> start(game_state)])
    /\ UNCHANGED << entities, spawned, despawned, explosions, input, delta_time,
                    env, schedule, pc, frame, health >>

NextStart == StartCall

SpecStart == InitStart /\ [][NextStart]_vars

\* what start() is to yield
FreshGameState ==
    [state |-> "Running", score |-> 0, wave |-> WAVE_DESCRIPTIONS[1],
     wave_timer |-> 0, wave_count |-> 0, upgrade_timers |-> [i \in 0..4 |-> 0],
     laser_ally_count |-> 0, spawning_enemies |-> FALSE]

\* C7: whatever the GameState was, start() yields state Running, score 0, the
\* first wave, wave_timer 0, wave_count 0, all upgrade timers 0,
\* laser_ally_count 0 and spawning_enemies false; a second application
\* yields the same again.
C7_StartResets ==
    /\ \A i \in 1..Len(calls) : calls[i].after = FreshGameState
    /\ Len(calls) > 0 => game_state = FreshGameState
    /\ \A i \in 2..Len(calls) : /\ calls[i].before = calls[i - 1].after
                                /\ calls[i].after = calls[i - 1].after

\* start() was applied twice to an ended game with a score, in the last
\* wave, with running timers and 21 laser allies
C7_Witness ==
    /\ Len(calls) = 2
    /\ calls[1].before.state = "Ended"
    /\ calls[1].before.score = 3
    /\ calls[1].before.wave = WAVE_DESCRIPTIONS[5]
    /\ calls[1].before.wave_count = Len(WAVE_DESCRIPTIONS)
    /\ calls[1].before.upgrade_timers[0] = 1000
    /\ calls[1].before.laser_ally_count = MAX_LASER_ALLY_COUNT + 1
    /\ calls[1].before.spawning_enemies
    /\ calls[2].before = calls[1].after
    /\ game_state = calls[2].after

\* ------------------------------------------------------------ start and end

Tagged(S) == {e \in S : e.DespawnOnGameRestart}

\* the restart menu entities, live or passed to engine.spawn
RestartMenus(S) == {e \in S : e.kind = "Menu" /\ e.asset_path = "menu_restart.glb"}

GameStart ==
    /\ Starting =>
         /\ Ids(Tagged(entities)) \subseteq despawned'
         /\ game_state'.state = "Running"
         /\ game_state'.score = 0
         /\ game_state'.wave_count = 0
         /\ game_state'.laser_ally_count = 0
         /\ \E p \in spawned' \ spawned :
              /\ spawned' = spawned \cup {p}
              /\ p.kind = "Player"
              /\ p.health = 100
    /\ SystemsDone /\ pc' = 0 /\ Players(spawned) # {} =>
         /\ game_state'.state = "Running"
         /\ game_state'.score = 0
         /\ Cardinality(Players(entities')) = 1
         /\ \A p \in Players(entities') : p.health = 100

\* C8: an update_game_state call in Start or Ended that sees the confirm
\* edge requests the despawn of every DespawnOnGameRestart entity, resets
\* the GameState and spawns a Player of health 100; when the frame's spawns
\* and despawns are applied, the state is Running, the score is 0, and
\* there is exactly one Player, of health 100.
C8_GameStart == [][GameStart]_vars

\* an ended game was restarted in this frame: the restart menu is requested
\* for despawn, the Player is spawned, the score is 0 again
C8_Witness ==
    /\ SystemsDone
    /\ game_state.state = "Running"
    /\ game_state.score = 0
    /\ Players(spawned) # {}
    /\ \E m \in RestartMenus(entities) : m.id \in despawned

GameOver ==
    /\ RunningUpdate /\ Players(entities) = {} =>
         /\ game_state'.state = "Ended"
         /\ ~game_state'.spawning_enemies
         /\ Ids(Tagged(entities)) \subseteq despawned'
         /\ \E m \in spawned' \ spawned :
              /\ spawned' = spawned \cup {m}
              /\ RestartMenus({m}) = {m}
    /\ game_state.state = "Ended" /\ game_state'.state = "Ended" =>
         RestartMenus(spawned') \subseteq RestartMenus(spawned)
    /\ Cardinality(RestartMenus(entities' \cup spawned')) <= 1

\* C9: an update_game_state call in Running that finds no Player sets the
\* state to Ended and spawning_enemies to false, requests the despawn of
\* every DespawnOnGameRestart entity and spawns the restart menu; no step
\* that keeps the state Ended spawns a restart menu, and there is never
\* more than one.
C9_GameOver == [][GameOver]_vars

\* the game has just ended: the restart menu is spawned and an entity of the
\* world is requested for despawn
C9_Witness ==
    /\ SystemsDone
    /\ game_state.state = "Ended"
    /\ ~game_state.spawning_enemies
    /\ Players(entities) = {}
    /\ RestartMenus(spawned) # {}
    /\ \E e \in Tagged(entities) : e.id \in despawned

\* C10 as stated: at every frame boundary and at every system invocation at
\* which the state is Running, exactly one Player entity exists.
C10_OnePlayerWhileRunning ==
    game_state.state = "Running" /\ ~SystemsDone =>
        Cardinality(Players(entities)) = 1

\* C10, amended: there is never more than one Player, live or passed to
\* engine.spawn, and never one outside Running; while the state is Running
\* there is none only after the frame boundary that removed a dead Player
\* and before the next update_game_state call, which ends the game.
C10_AtMostOnePlayer ==
    /\ Cardinality(Players(entities \cup spawned)) <= 1
    /\ Players(entities \cup spawned) # {} => game_state.state = "Running"
    /\ Cardinality(Players(entities)) + Cardinality(Players(spawned)) <= 1
    /\ game_state.state = "Running" /\ Players(entities \cup spawned) = {} =>
         ~SystemsDone
    /\ game_state.state = "Running" /\ Players(entities) = {} /\ SystemsDone =>
         Players(spawned) # {}

\* the dead Player was removed at the frame boundary: the state is Running
\* and there is no Player
C10_Witness ==
    /\ game_state.state = "Running"
    /\ Players(entities \cup spawned) = {}
    /\ pc = 0
    /\ game_state.wave_count > 0

\* ------------------------------------------------------------ state cycle

\* the step takes the state from one value to another
Goes(from, to) == game_state.state = from /\ game_state'.state = to

CycleThroughStart ==
    game_state'.state # game_state.state =>
        \/ Goes("Start", "Running")
        \/ Goes("Running", "Ended")
        \/ Goes("Ended", "Start")

\* C11 as stated: the state only goes from Start to Running, from Running to
\* Ended, and from Ended to Start.
C11_CycleThroughStart == [][CycleThroughStart]_vars

StateCycle ==
    /\ game_state'.state # game_state.state =>
         /\ Turn("update_game_state")
         /\ \/ Goes("Start", "Running") /\ Confirm
            \/ Goes("Running", "Ended") /\ Players(entities) = {}
            \/ Goes("Ended", "Running") /\ Confirm
    /\ Starting => game_state'.state = "Running"

\* C11, amended: the state changes only in update_game_state: from Start to
\* Running on the confirm edge, from Running to Ended when no Player exists,
\* and from Ended to Running on the confirm edge, via start(); a confirm
\* edge outside Running always yields Running, and Start is never entered
\* again.
C11_StateCycle == [][StateCycle]_vars

\* an ended game was restarted by the confirm edge: the state is Running
\* while the restart menu of the ended game is still live
C11_Witness ==
    /\ game_state.state = "Running"
    /\ input.key_space.pressed_this_frame
    /\ RestartMenus(entities) # {}
    /\ game_state.wave_timer = 0

\* ------------------------------------------------------------ collisions

\* the sum of the health of the allies in S, and of the damage of the
\* enemies or projectiles in S
RECURSIVE AllyHealth(_)
AllyHealth(S) ==
    IF S = {} THEN 0
    ELSE LET a == CHOOSE e \in S : TRUE IN a.health + AllyHealth(S \ {a})

RECURSIVE DamageOf(_)
DamageOf(S) ==
    IF S = {} THEN 0
    ELSE LET a == CHOOSE e \in S : TRUE IN a.damage + DamageOf(S \ {a})

Allies(S) == {e \in S : e.kind \in {"Player", "SupportUnit"}}

\* the enemies that this step requests for despawn while they are on the
\* stage: those that hit an ally
Colliding ==
    {e \in Enemies(entities') : /\ e.id \in despawned' \ despawned
                                /\ ~(e.z < -10000)}

OneAllyPerEnemy ==
    Turn("update_enemies") =>
        /\ explosions' = explosions + Cardinality(Colliding)
        /\ AllyHealth(Allies(entities')) =
              AllyHealth(Allies(entities)) - DamageOf(Colliding)

\* C12: in an update_enemies call every enemy that hits reduces the health
\* of one ally by its damage and spawns one explosion, however many allies
\* its damage box overlaps.
C12_OneAllyPerEnemy == [][OneAllyPerEnemy]_vars

\* ------------------------------------------------------------ spawning gate

\* enemies are spawned only in a running wave, not in its quiet period
InWave(gs) ==
    /\ gs.state = "Running"
    /\ 0 <= gs.wave_timer
    /\ gs.wave_timer <= gs.wave.duration

SpawningGate ==
    /\ game_state.spawning_enemies => InWave(game_state)
    /\ game_state'.spawning_enemies => InWave(game_state')
    /\ Enemies(spawned') \ Enemies(spawned) # {} =>
         /\ Turn("spawn_enemies")
         /\ InWave(game_state)
    /\ Starting => ~game_state'.spawning_enemies
    /\ RunningUpdate /\ game_state.wave_timer + delta_time < 0 =>
         ~game_state'.spawning_enemies

\* C13: whenever spawning_enemies is true the state is Running and
\* 0 <= wave_timer <= wave.duration; enemies are spawned only by
\* spawn_enemies and only then, so none is spawned in Start or Ended, none
\* between start() and the first following update, and none in the quiet
\* period while wave_timer is below 0.
C13_SpawningGate == [][SpawningGate]_vars

\* spawn_enemies has spawned an enemy of the second wave, after the quiet
\* period
C13_Witness ==
    /\ pc > 1
    /\ schedule[pc - 1] = "spawn_enemies"
    /\ Enemies(spawned) # {}
    /\ game_state.wave_count = 1
    /\ game_state.spawning_enemies

\* ------------------------------------------------------------ wave table

\* the description the wave table holds for a wave count, the last one for
\* every count past the table
WaveOf(wave_count) ==
    WAVE_DESCRIPTIONS[Min(wave_count, Len(WAVE_DESCRIPTIONS) - 1) + 1]

WaveInTable ==
    /\ game_state'.state # "Start" =>
         game_state'.wave = WaveOf(game_state'.wave_count)
    /\ RunningUpdate /\ Exceeds
         /\ game_state.wave_count >= Len(WAVE_DESCRIPTIONS) - 1 =>
           /\ game_state'.wave = WAVE_DESCRIPTIONS[Len(WAVE_DESCRIPTIONS)]
           /\ game_state'.wave_count = game_state.wave_count + 1
           /\ game_state'.wave_timer = -SECONDS_BETWEEN_WAVES

\* C14: once start() has run, wave is the description the table holds for
\* min(wave_count, 4); a wave advance from the fifth wave on keeps the last
\* description, raises wave_count and starts the quiet period.
C14_WaveInTable == [][WaveInTable]_vars

\* the fifth wave has ended twice: wave_count is 6, past the table, and the
\* wave is still the last description
C14_Witness ==
    /\ game_state.state = "Running"
    /\ game_state.wave_count = Len(WAVE_DESCRIPTIONS) + 1
    /\ game_state.wave = WAVE_DESCRIPTIONS[Len(WAVE_DESCRIPTIONS)]
    /\ game_state.wave_timer = -SECONDS_BETWEEN_WAVES

\* ------------------------------------------------------------ shared counters

\* Concurrent modify_health calls on one Health and modify_score calls on
\* the score, as the callbacks of a par_for_each make them.  A thread reaches
\* the fetch_add of its call having seen the counter at some earlier moment;
\* the fetch_add itself is one atomic step on the counter's current value.

\* a call of fn that has not seen the counter yet
CounterCall(fn, modification) ==
    [fn |-> fn, modification |-> modification, at |-> "called", seen |-> 0]

CounterCalls ==
    {CounterCall("modify_health", -d) : d \in 1..MaxDamage}
        \cup {CounterCall("modify_score", 1)}

\* the counter a call works on
Counter(call) ==
    IF call.fn = "modify_health" THEN health.value ELSE game_state.score

\* a read-modify-write that is not atomic: the value seen earlier, plus op
plain_add(current, seen, op) == seen + op

\* std::atomic<int>::fetch_add, lines 326-327: the counter's current value,
\* whatever the thread saw of it before, plus op
atomic_fetch_add(current, seen, op) == fetch_add(current, op)

\* a game in progress with a score, a Health, and the calls
InitCounters ==
    /\ \E h \in -1..MaxHealth, s \in {0, 3}, n \in 1..MaxCalls :
         /\ health = [initial |-> h, value |-> h, score |-> s]
         /\ \E g \in InitGameState :
              game_state = modify_score(start(g), s)
         /\ calls \in [1..n -> CounterCalls]
    /\ entities = InitWorld
    /\ spawned = {}
    /\ despawned = {}
    /\ explosions = 0
    /\ input = NoInput
    /\ delta_time = 0
    /\ env = Skirmish
    /\ schedule = Systems
    /\ pc = 0
    /\ frame = 0

\* call i's thread sees the counter
See ==
    /\ \E i \in DOMAIN calls :
         /\ calls[i].at = "called"
         /\ calls' = [calls EXCEPT ![i].at = "seen",
                                   ![i].seen = Counter(calls[i])]
    /\ UNCHANGED << game_state, entities, spawned, despawned, explosions, input,
                    delta_time, env, schedule, pc, frame, health >>

\* call i's fetch_add
Add ==
    \E i \in DOMAIN calls :
        LET call == calls[i]
            value == atomic_fetch_add(Counter(call), call.seen, call.modification)
        IN  /\ call.at = "seen"
            /\ calls' = [calls EXCEPT ![i].at = "done"]
            /\ IF call.fn = "modify_health"
               THEN /\ health' = [health EXCEPT !.value = value]
                    /\ UNCHANGED game_state
               ELSE /\ game_state' = [game_state EXCEPT !.score = value]
                    /\ UNCHANGED health
            /\ UNCHANGED << entities, spawned, despawned, explosions, input,
                            delta_time, env, schedule, pc, frame >>

NextCounters == See \/ Add

SpecCounters == InitCounters /\ [][NextCounters]_vars

\* the calls of fn that have made their fetch_add
Done(fn) == {i \in DOMAIN calls : calls[i].fn = fn /\ calls[i].at = "done"}

RECURSIVE Modifications(_)
Modifications(I) ==
    IF I = {} THEN 0
    ELSE LET i == CHOOSE j \in I : TRUE
         IN  calls[i].modification + Modifications(I \ {i})

\* C15: in every interleaving of the calls, the Health is its initial value
\* plus the modifications of the modify_health calls made so far, and the
\* score is its initial value plus the number of modify_score(+1) calls made
\* so far; so when all calls are done no update is lost.
C15_NoLostUpdate ==
    /\ health.value = health.initial + Modifications(Done("modify_health"))
    /\ game_state.score = health.score + Cardinality(Done("modify_score"))

\* two modify_health calls and a modify_score call, each of which saw its
\* counter before any of them made its fetch_add, are all done
C15_Witness ==
    /\ Len(calls) = 3
    /\ \A i \in DOMAIN calls : calls[i].at = "done"
    /\ Cardinality(Done("modify_health")) = 2
    /\ \A i \in Done("modify_health") : calls[i].seen = health.initial
    /\ health.value < health.initial - 1
    /\ game_state.score = health.score + 1
    /\ health.score > 0

\* ------------------------------------------------------------ upgrade spawns

Upgrades(S) == {e \in S : e.kind = "Upgrade"}

\* the upgrades of a type that this step passes to engine.spawn
NewUpgrades(type) == {u \in Upgrades(spawned') \ Upgrades(spawned) : u.type = type}

OneUpgradePerType ==
    /\ Upgrades(spawned') \ Upgrades(spawned) # {} => Turn("spawn_upgrades")
    /\ Turn("spawn_upgrades") =>
         \A type \in UpgradeType :
            LET timer == game_state.upgrade_timers[UpgradeIndex(type)]
                after == game_state'.upgrade_timers[UpgradeIndex(type)]
            IN  /\ Cardinality(NewUpgrades(type)) <= 1
                /\ NewUpgrades(type) # {} => after = 0
                /\ NewUpgrades(type) = {} => after \in {timer, timer + delta_time}
    /\ game_state'.state # "Start" =>
         \A i \in 0..4 : game_state'.upgrade_timers[i] >= 0

\* C16: a spawn_upgrades call spawns at most one upgrade of each type; the
\* timer of a type that spawns is 0 after the call, and the timer of a type
\* that does not spawn is unchanged or has grown by delta_time; once start()
\* has run no timer is negative.
C16_OneUpgradePerType == [][OneUpgradePerType]_vars

\* in a frame of 100 seconds, more than twelve spawn intervals of the Laser
\* upgrade, spawn_upgrades has spawned one Laser upgrade and its timer is 0
C16_Witness ==
    /\ pc > 1
    /\ schedule[pc - 1] = "spawn_upgrades"
    /\ delta_time = 100000
    /\ Cardinality({u \in Upgrades(spawned) : u.type = "Laser"}) = 1
    /\ game_state.upgrade_timers[UpgradeIndex("Laser")] = 0

\* ------------------------------------------------------------ gated upgrades

\* the type is gated in this state: Health at full health, Laser at the cap
Gated(type) ==
    \/ type = "Health" /\ \E p \in Players(entities) : p.health = 100
    \/ type = "Laser" /\ game_state.laser_ally_count >= MAX_LASER_ALLY_COUNT

GatedUpgrades ==
    Turn("spawn_upgrades") =>
        IF game_state.state # "Running"
        THEN /\ game_state'.upgrade_timers = game_state.upgrade_timers
             /\ spawned' = spawned
        ELSE \A i \in 1..Len(game_state.wave.upgrades) :
               LET desc == game_state.wave.upgrades[i]
                   timer == game_state.upgrade_timers[UpgradeIndex(desc.type)]
                   after == game_state'.upgrade_timers[UpgradeIndex(desc.type)]
               IN  IF Gated(desc.type)
                   THEN /\ NewUpgrades(desc.type) = {}
                        /\ after = timer
                   ELSE after = IF timer + delta_time >= desc.spawn_rate_inverse
                                THEN 0 ELSE timer + delta_time

\* C17: a spawn_upgrades call spawns no Health upgrade while the Player's
\* health is 100 and no Laser upgrade while laser_ally_count is at least
\* MAX_LASER_ALLY_COUNT, and leaves the gated type's timer as it was; the
\* timers of the wave's other types go on by delta_time (to 0 when the type
\* spawns); outside Running the call changes no timer and spawns nothing.
C17_GatedUpgrades == [][GatedUpgrades]_vars

\* spawn_upgrades has run with the Player at full health and twenty laser
\* allies, in a wave with Health and Laser upgrades: it spawned a Grenade
\* upgrade and neither of the gated types
C17_Witness ==
    /\ pc > 1
    /\ schedule[pc - 1] = "spawn_upgrades"
    /\ game_state.state = "Running"
    /\ game_state.laser_ally_count >= MAX_LASER_ALLY_COUNT
    /\ \E p \in Players(entities) : p.health = 100
    /\ \E i \in 1..Len(game_state.wave.upgrades) :
         game_state.wave.upgrades[i].type = "Health"
    /\ \E u \in Upgrades(spawned) : u.type = "Grenade"
    /\ \A u \in Upgrades(spawned) : u.type \notin {"Health", "Laser"}

\* ------------------------------------------------------------ uber lasers

UberLasers(S) == {e \in S : e.kind = "UberLaser"}

\* the uber lasers that are within range in this frame and reach the enemy
Sweeping(enemy) ==
    {u \in UberLasers(entities) :
       /\ u.z < STAGE_LENGTH
       /\ enemy.z <= u.z + u.velocity * delta_time + LASER_DAMAGE_RADIUS}

UberLaserSweep ==
    /\ \A u \in UberLasers(entities) :
         u.id \in despawned' \ despawned =>
            /\ Turn("update_uber_lasers")
            /\ u.z >= STAGE_LENGTH
    /\ Turn("update_uber_lasers") =>
         /\ \A u \in UberLasers(entities) :
              \E v \in UberLasers(entities') :
                 /\ v.id = u.id
                 /\ v.z = IF u.z >= STAGE_LENGTH THEN u.z
                          ELSE u.z + u.velocity * delta_time
         /\ \A e \in Enemies(entities) :
              \E f \in Enemies(entities') :
                 /\ f.id = e.id
                 /\ f.health = e.health - DamageOf(Sweeping(e))

\* C18: an UberLaser is requested for despawn only by update_uber_lasers
\* and only when its z has reached STAGE_LENGTH; otherwise every
\* update_uber_lasers call moves it on and takes its damage off every enemy
\* whose z is at most its next z + LASER_DAMAGE_RADIUS, whatever the enemy's
\* x and whatever it hit before.
C18_UberLaserSweep == [][UberLaserSweep]_vars

\* an uber laser has hit the same enemy of health 2000, six units to the
\* side, in two frames and killed it in the second; it is not requested for
\* despawn
C18_Witness ==
    /\ pc > 1
    /\ schedule[pc - 1] = "update_uber_lasers"
    /\ \E u \in UberLasers(entities) :
         /\ u.id \notin despawned
         /\ \E e \in Enemies(entities) :
              /\ e.health = 0
              /\ e.id \in despawned
              /\ Abs(e.x - u.x) > LASER_DAMAGE_RADIUS
              /\ e.z < u.z

\* ------------------------------------------------------------ tunnelling

Lasers(S) == {e \in S : e.kind = "Laser"}

\* the laser is in flight: within range and not yet requested for despawn,
\* so it has hit nothing
InFlight(laser) == laser.z < LASER_DISTANCE /\ laser.id \notin despawned

\* The enemy, ahead of the laser before it moves, is on the stage behind the
\* laser's reach after it has moved: the laser's segment of the frame before
\* ended short of it, and the segment of this frame starts beyond it.
Tunnels(laser, before, after) ==
    /\ InFlight(laser)
    /\ Abs(before.x - laser.x) <= LASER_DAMAGE_RADIUS
    /\ Abs(after.x - laser.x) <= LASER_DAMAGE_RADIUS
    /\ before.z > laser.z + LASER_DAMAGE_RADIUS
    /\ after.z < laser.z - LASER_DAMAGE_RADIUS
    /\ ~(after.z < -10000)

NoTunnelling ==
    Turn("update_enemies") =>
        \A laser \in Lasers(entities), e \in Enemies(entities) :
            \A f \in Enemies(entities') :
                f.id = e.id => ~Tunnels(laser, e, f)

\* C19: no enemy that is ahead of a laser in flight, within
\* LASER_DAMAGE_RADIUS of it in x, comes to lie behind the laser's reach in
\* one frame's movement, whatever delta_time and the enemy's speed are: the
\* laser's swept test registers a hit in the frame before or in this one.
C19_NoTunnelling == [][NoTunnelling]_vars

\* ------------------------------------------------------------ spawn counts

\* at most this many enemies are spawned in one spawn_enemies call
MaxSpawns == 64

\* the frame times of the spawn_enemies calls, in ms
SpawnTimes == {0, 4, 10, 17, 100, 200}

\* the values randf() returns at line 645, in millionths
SpawnRolls == {0, 400000, 500000, 999999}

\* One frame of the times above with room for every enemy of the frame; each
\* enemy is spawned in the middle lane at its least speed.
Muster ==
    [frames |-> 1,
     schedules |-> {Systems},
     delta_times |-> << SpawnTimes >>,
     inputs |-> << {NoInput} >>,
     max_enemies |-> MaxSpawns,
     max_lasers |-> MaxLasers,
     max_grenades |-> MaxGrenades,
     enemy_lanes |-> {0},
     speeds |-> {0},
     upgrade_lanes |-> AllTypes({0}),
     scales |-> {0}]

\* the game state after start() and wave_count calls of start_next_wave
RECURSIVE Started(_)
Started(wave_count) ==
    IF wave_count = 0 THEN start(CHOOSE g \in InitGameState : TRUE)
    ELSE start_next_wave(Started(wave_count - 1))

\* update_game_state, lines 1216-1218: the wave status after the time dt
Elapsed(gs, dt) ==
    LET g1 == [gs EXCEPT !.wave_timer = @ + dt]
    IN  [g1 EXCEPT !.spawning_enemies = (g1.wave_timer >= 0)]

\* A running game at the spawn_enemies call of a frame, in any wave of the
\* table: as start() or start_next_wave left it, or after the pause between
\* the waves.
InitSpawns ==
    /\ \E n \in 0..(Len(WAVE_DESCRIPTIONS) - 1) :
         game_state \in {Started(n), Elapsed(Started(n), SECONDS_BETWEEN_WAVES)}
    /\ entities = { CameraEntity(0) }
    /\ spawned = {}
    /\ despawned = {}
    /\ explosions = 0
    /\ input = NoInput
    /\ delta_time \in SpawnTimes
    /\ env = Muster
    /\ schedule = Systems
    /\ pc = CHOOSE i \in 1..Len(Systems) : Systems[i] = "spawn_enemies"
    /\ frame = 1
    /\ health = [initial |-> 0, value |-> 0]
    /\ calls = << >>

\* SYSTEM(spawn_enemies), with the draws of line 645 kept in calls
SpawnCall ==
    /\ calls = << >>
    /\ Turn("spawn_enemies")
    /\ \E draws \in [1..Len(game_state.wave.enemies) -> SpawnRolls] :
         /\ IF ~game_state.spawning_enemies
            THEN UNCHANGED spawned
            ELSE SpawnEnemies(draws)
         /\ calls' = << draws >>
    /\ pc' = pc + 1
    /\ UNCHANGED << game_state, entities, despawned, explosions, input,
                    delta_time, env, schedule, frame, health >>

NextSpawns == SpawnCall

SpecSpawns == InitSpawns /\ [][NextSpawns]_vars

\* the enemies spawned from a description
Made(desc) ==
    {e \in Enemies(spawned) :
       /\ e.health = desc.health
       /\ e.scale = desc.scale
       /\ e.damage = desc.damage
       /\ e.turn_rate = desc.turn_rate
       /\ e.max_angle = desc.max_angle
       /\ e.speed = desc.speed_min}

\* spawn_rate * delta_time in millionths of an enemy, and its floor
Expected(desc) == desc.spawn_rate * delta_time

Floor(desc) ==
    CHOOSE k \in 0..MaxSpawns :
        k * 1000000 <= Expected(desc) /\ Expected(desc) < (k + 1) * 1000000

SpawnCountOf(desc, draw) ==
    LET made == Cardinality(Made(desc))
        remainder == Expected(desc) - Floor(desc) * 1000000
    IN  /\ made \in {Floor(desc), Floor(desc) + 1}
        /\ made = Floor(desc) + 1 <=> draw < remainder
        /\ remainder = 0 => made = Floor(desc)
        /\ Expected(desc) = 0 => made = 0

\* C20: in a frame with spawning_enemies true, spawn_enemies creates of each
\* enemy description of the wave floor(spawn_rate * delta_time) enemies, and
\* one more exactly when the draw is below the fractional remainder: exactly
\* the expected count when that is whole, and none when it is 0.
C20_SpawnCount ==
    (calls # << >> /\ game_state.spawning_enemies) =>
        \A i \in 1..Len(game_state.wave.enemies) :
            SpawnCountOf(game_state.wave.enemies[i], calls[1][i])

\* a fractional expected count with the draw at the remainder itself (no
\* extra enemy), next to a draw below another remainder (an extra enemy), and
\* a whole expected count
C20_Witness ==
    /\ calls # << >>
    /\ game_state.spawning_enemies
    /\ \E i \in 1..Len(game_state.wave.enemies) :
         LET desc == game_state.wave.enemies[i]
         IN  /\ Expected(desc) - Floor(desc) * 1000000 = calls[1][i]
             /\ calls[1][i] > 0
             /\ Cardinality(Made(desc)) = Floor(desc)
             /\ Floor(desc) > 0
    /\ \E i \in 1..Len(game_state.wave.enemies) :
         LET desc == game_state.wave.enemies[i]
         IN  /\ calls[1][i] > 0
             /\ Cardinality(Made(desc)) = Floor(desc) + 1

\* ------------------------------------------------------------ update_score

\* the score display is followed over this many frames
ScoreFrames == 3

\* at most this many enemies are killed in a frame
MaxKills == 2

\* the scores the display starts from
ScoreStarts == {0, 8, 9, 98, 99, 998}

DIGIT_ASSET_PATHS ==
    << "Number_0.glb", "Number_1.glb", "Number_2.glb", "Number_3.glb",
       "Number_4.glb", "Number_5.glb", "Number_6.glb", "Number_7.glb",
       "Number_8.glb", "Number_9.glb" >>

\* the Score entity update_score spawns for the i-th digit
ScoreEntity(id, i, digit_value) ==
    [id |-> id, kind |-> "Score", place |-> i,
     asset_path |-> DIGIT_ASSET_PATHS[digit_value + 1],
     DespawnOnGameRestart |-> FALSE]

Scores(S) == {e \in S : e.kind = "Score"}

\* std::log10 of a positive int, converted to int
RECURSIVE Log10(_)
Log10(score) == IF score < 10 THEN 0 ELSE 1 + Log10(score \div 10)

\* update_score, line 1308, without the + 1
digit_len_log10(score) == IF score > 0 THEN Log10(score) ELSE 1

\* update_score, line 1308
digit_len(score) == IF score > 0 THEN Log10(score) + 1 ELSE 1

\* update_score, lines 1310-1313: digit_value of the i-th turn of the loop
RECURSIVE DigitValue(_, _)
DigitValue(score, i) ==
    IF i = 0 THEN score % 10 ELSE DigitValue(score \div 10, i - 1)

\* SYSTEM(update_score)
update_score ==
    /\ Turn("update_score")
    /\ IF \A e \in entities : e.kind # "Camera"
       THEN UNCHANGED << spawned, despawned >>
       ELSE LET score == game_state.score
                ids == FreshIds(UsedIds, digit_len(score))
            IN  /\ despawned' = despawned \cup Ids(Scores(entities))
                /\ spawned' = spawned \cup
                     { ScoreEntity(ids[i + 1], i, DigitValue(score, i)) :
                       i \in 0..(digit_len(score) - 1) }
    /\ UNCHANGED << game_state, entities, explosions >>
    /\ Advance

\* the kills of a frame: each is a modify_score(game_state, 1)
RECURSIVE Scored(_, _)
Scored(gs, kills) ==
    IF kills = 0 THEN gs ELSE Scored(modify_score(gs, 1), kills - 1)

Kills ==
    /\ Turn("kills")
    /\ \E kills \in 0..MaxKills : game_state' = Scored(game_state, kills)
    /\ UNCHANGED << entities, spawned, despawned, explosions >>
    /\ Advance

\* frames in which enemies are killed and the score is shown
Scoreboard ==
    [frames |-> ScoreFrames,
     schedules |-> {<< "kills", "update_score" >>},
     delta_times |-> << {1000} >>,
     inputs |-> << {NoInput} >>,
     max_enemies |-> MaxEnemies,
     max_lasers |-> MaxLasers,
     max_grenades |-> MaxGrenades,
     enemy_lanes |-> {0},
     speeds |-> {0},
     upgrade_lanes |-> AllTypes({0}),
     scales |-> {0}]

\* a running game with some score, before the first frame that shows it
InitScore ==
    /\ \E score \in ScoreStarts : game_state = modify_score(Started(0), score)
    /\ entities = { CameraEntity(0) }
    /\ spawned = {}
    /\ despawned = {}
    /\ explosions = 0
    /\ input = NoInput
    /\ delta_time = 0
    /\ env = Scoreboard
    /\ schedule \in Scoreboard.schedules
    /\ pc = 0
    /\ frame = 0
    /\ health = [initial |-> 0, value |-> 0]
    /\ calls = << >>

NextScore == BeginFrame \/ Kills \/ update_score \/ EndFrame

SpecScore == InitScore /\ [][NextScore]_vars

\* the number of decimal digits of a score, and its i-th least significant
Digits(score) ==
    CHOOSE d \in 1..10 :
        /\ d > 1 => 10 ^ (d - 1) <= score
        /\ d < 10 => score < 10 ^ d

Digit(score, i) == (score \div (10 ^ i)) % 10

ScoreShown ==
    /\ Turn("update_score") =>
         LET new == spawned' \ spawned
             d == Digits(game_state.score)
         IN  /\ Ids(Scores(entities)) \subseteq despawned'
             /\ new \subseteq Scores(new)
             /\ Cardinality(new) = d
             /\ \A i \in 0..(d - 1) :
                  \E e \in new :
                     /\ e.place = i
                     /\ e.asset_path
                          = DIGIT_ASSET_PATHS[Digit(game_state.score, i) + 1]
    /\ (pc' = 0 /\ frame' > 0) =>
         Cardinality(Scores(entities')) = Digits(game_state'.score)

\* C21: a run of update_score with a camera present requests the despawn of
\* every live Score entity and spawns exactly d Score entities, d the number
\* of decimal digits of the score (1 for the score 0), the i-th with the
\* asset of the i-th least significant digit; after every frame boundary the
\* live Score entities are d in number.
C21_ScoreShown == [][ScoreShown]_vars

\* a score of three digits shown after one of two digits was
C21_Witness ==
    /\ pc = 0
    /\ frame > 1
    /\ game_state.score = 100
    /\ {e.asset_path : e \in Scores(entities)} = {"Number_0.glb", "Number_1.glb"}
    /\ Cardinality(Scores(entities)) = 3

\* ------------------------------------------------------------ update_health_bar

\* the health bar is followed over this many frames
HealthBarFrames == 2

\* init_world, line 532: the number of segments of the health bar
SEGMENTS == 100

\* the damage of the enemies of the wave table
Damages == {1, 10, 50}

\* The health bar segment spawned by init_world: an entity consists of the
\* components given to engine.spawn, and no Color is among them.
SegmentEntity(id, index) ==
    [id |-> id, kind |-> "HealthBarSegment", index |-> index,
     components |-> {"Transform", "HealthBarSegment", "DynamicStaticMesh"},
     color |-> "none", DespawnOnGameRestart |-> FALSE]

\* Query<const HealthBarSegment&, Color&, Transform&>: the entities with at
\* least the components of the query
query_health_bar(S) ==
    {e \in S : /\ e.kind = "HealthBarSegment"
               /\ {"HealthBarSegment", "Color", "Transform"} \subseteq e.components}

\* update_health_bar, lines 1246-1251: the health the bar is to show
ShownHealth(player) ==
    IF player # {} THEN (CHOOSE e \in player : TRUE).health
    ELSE IF game_state.state = "Start" THEN 100 ELSE 0

\* SYSTEM(update_health_bar)
update_health_bar ==
    /\ Turn("update_health_bar")
    /\ \E player \in (IF Players(entities) = {} THEN {{}}
                      ELSE {{e} : e \in Players(entities)}) :
         LET health_shown == ShownHealth(player)
         IN  entities' = Replace(entities,
               { [e EXCEPT !.color = IF e.index < health_shown
                                     THEN "green" ELSE "red"] :
                 e \in query_health_bar(entities) })
    /\ UNCHANGED << game_state, spawned, despawned, explosions >>
    /\ Advance

\* the enemies that hit the Player in a frame: each is a modify_health
Hits ==
    /\ Turn("hits")
    /\ \E damage \in Damages \cup {0} :
         entities' = Replace(entities,
           { [e EXCEPT !.health = modify_health(e.health, -damage).value] :
             e \in Players(entities) })
    /\ UNCHANGED << game_state, spawned, despawned, explosions >>
    /\ Advance

\* frames in which the Player is hit and the health bar is coloured
Gauge ==
    [frames |-> HealthBarFrames,
     schedules |-> {<< "hits", "update_health_bar" >>},
     delta_times |-> << {1000} >>,
     inputs |-> << {NoInput} >>,
     max_enemies |-> MaxEnemies,
     max_lasers |-> MaxLasers,
     max_grenades |-> MaxGrenades,
     enemy_lanes |-> {0},
     speeds |-> {0},
     upgrade_lanes |-> AllTypes({0}),
     scales |-> {0}]

\* the world of init_world's camera and health bar, in a game not yet
\* started, running with or without the Player, or ended
InitHealthBar ==
    /\ \E situation \in
            {<< "Start", {} >>, << "Ended", {} >>, << "Running", {} >>}
            \cup {<< "Running", {[PlayerEntity(1) EXCEPT !.health = h]} >> :
                    h \in {100, 90, 51, 10, 1}} :
         /\ game_state = [Started(0) EXCEPT !.state = situation[1]]
         /\ entities = { CameraEntity(0) } \cup situation[2]
                         \cup { SegmentEntity(2 + i, i) : i \in 0..(SEGMENTS - 1) }
    /\ spawned = {}
    /\ despawned = {}
    /\ explosions = 0
    /\ input = NoInput
    /\ delta_time = 0
    /\ env = Gauge
    /\ schedule \in Gauge.schedules
    /\ pc = 0
    /\ frame = 0
    /\ health = [initial |-> 0, value |-> 0]
    /\ calls = << >>

NextHealthBar == BeginFrame \/ Hits \/ update_health_bar \/ EndFrame

SpecHealthBar == InitHealthBar /\ [][NextHealthBar]_vars

Segments(S) == {e \in S : e.kind = "HealthBarSegment"}

\* the health the bar is to show in this state
BarHealth ==
    IF Players(entities) # {}
    THEN (CHOOSE e \in Players(entities) : TRUE).health
    ELSE IF game_state.state = "Start" THEN 100 ELSE 0

HealthBarColoured ==
    Turn("update_health_bar") =>
        /\ \A e \in Segments(entities') :
             e.color = IF e.index < BarHealth THEN "green" ELSE "red"
        /\ Cardinality({e \in Segments(entities') : e.color = "green"})
             = Min(Max(BarHealth, 0), SEGMENTS)

\* C22: update_health_bar colours the segments with index below h green and
\* all others red, min(max(h, 0), 100) of the 100 being green, h the
\* Player's health, or 100 without a Player in state Start and 0 without a
\* Player in another state.
C22_HealthBarColoured == [][HealthBarColoured]_vars

\* ------------------------------------------------------------ deferred despawn

Grenades(S) == {e \in S : e.kind = "Grenade"}

\* the entity as this step leaves it
After(e) == {f \in entities' : f.id = e.id /\ f.kind = e.kind}

\* the entity has its effect in this step: the upgrade is picked up, the
\* enemy damages an ally, the laser hits an enemy, the grenade lands
Acts(e) ==
    \/ /\ Turn("update_upgrades")
       /\ e.kind = "Upgrade"
       /\ \E f \in After(e), p \in Players(entities) :
             Within(f.x, f.z, p.x, p.z, UPGRADE_RADIUS)
    \/ /\ Turn("update_enemies")
       /\ e.kind = "Enemy"
       /\ \E f \in After(e), a \in Allies(entities) :
             /\ Overlaps(f, a, Div(ENEMY_DAMAGE_RADIUS * f.scale, 1000))
             /\ \E b \in After(a) : b.health < a.health
    \/ /\ Turn("update_lasers")
       /\ e.kind = "Laser"
       /\ e.z < LASER_DISTANCE
       /\ \E enemy \in Enemies(entities) :
             LaserHits(e, e.z + e.velocity * delta_time, enemy)
    \/ /\ Turn("update_grenades")
       /\ e.kind = "Grenade"
       /\ \E f \in After(e) : f.y = 0 /\ f.z # e.z

ActsOnce ==
    /\ \A e \in entities :
          Acts(e) => /\ e.id \notin despawned
                     /\ e.id \in despawned'
    /\ pc' # 0 => despawned \subseteq despawned'
    /\ pc' = 0 => \A f \in entities' : f \in spawned \/ f.id \notin despawned

\* C23: an upgrade that is picked up, an enemy that damages an ally, a laser
\* that hits and a grenade that lands had no despawn request before and have
\* one after the step, however many requests the step makes; a request
\* stays until the frame boundary, and no entity with a request is live
\* after the boundary: none of them acts in a later frame.
C23_ActsOnce == [][ActsOnce]_vars

\* at the end of a frame an enemy whose damage box holds the Player and a
\* SupportUnit, and that was so requested for despawn twice, is about to be
\* removed
C23_Witness ==
    /\ pc = Len(schedule) + 1
    /\ \E e \in Enemies(entities) :
          /\ e.id \in despawned
          /\ \E a, b \in Allies(entities) :
                /\ a.kind = "Player"
                /\ b.kind = "SupportUnit"
                /\ Overlaps(e, a, Div(ENEMY_DAMAGE_RADIUS * e.scale, 1000))
                /\ Overlaps(e, b, Div(ENEMY_DAMAGE_RADIUS * e.scale, 1000))

\* ------------------------------------------------------------ empty queries

Cameras(S) == {e \in S : e.kind = "Camera"}

\* The system whose turn it is dereferences the result of get_first without
\* a test, and the query is empty: the camera in player_movement's callback
\* (lines 571-591) and in the game-over branch of update_game_state (line
\* 1235).  Every other result is tested (lines 616, 664, 970, 1040, 1225,
\* 1247, 1286) or comes from a query that was tested (lines 1044, 1068).
Faults ==
    \/ /\ Turn("player_movement")
       /\ Players(entities) # {}
       /\ Len(input.touches) > 0 \/ input.mouse.is_present
       /\ Cameras(entities) = {}
    \/ /\ Turn("update_game_state")
       /\ game_state.state = "Running"
       /\ Players(entities) = {}
       /\ Cameras(entities) = {}

\* C24: no system dereferences the null of an empty query: the Camera of
\* init_world is live in every state and is never requested for despawn, and
\* at the dereferences that are not guarded by a test the entity exists.
C24_NoNullDereference ==
    /\ ~Faults
    /\ Cameras(entities) # {}
    /\ Ids(Cameras(entities)) \cap despawned = {}

\* the game-over branch is about to be taken, with the camera in place
C24_Witness ==
    /\ Turn("update_game_state")
    /\ game_state.state = "Running"
    /\ Players(entities) = {}
    /\ Cameras(entities) # {}

\* ------------------------------------------------------------ player death

\* it is the turn of a system; every system runs to its end when it is called
Scheduled == pc \in 1..Len(schedule)

\* WF_pc(Next) for the systems, with ENABLED written as Scheduled: the
\* scheduler calls the system whose turn it is
SystemsRun == []<>~Scheduled \/ []<><<Next>>_pc

\* The engine starts a frame after the last one the environment describes,
\* while no game is running: the frame has no input and the frame time of
\* the last frame described.
IdleFrame ==
    /\ pc = 0
    /\ frame = env.frames
    /\ game_state.state # "Running"
    /\ pc' = 1
    /\ input' = NoInput
    /\ delta_time' \in FrameTimes(frame)
    /\ UNCHANGED << game_state, entities, spawned, despawned, explosions,
                    env, schedule, frame, health, calls >>

NextLive == Next \/ IdleFrame

\* the environments with a game over, with grenades and with uber lasers
LiveEnvironments == {Assault, Ambush, Sweep}

InitLive ==
    /\ \E environment \in LiveEnvironments : InitIn(environment)
    /\ health = [initial |-> 0, value |-> 0]
    /\ calls = << >>

\* the frames of the environment are used up in a running game
Truncated ==
    /\ pc = 0
    /\ frame = env.frames
    /\ game_state.state = "Running"

\* The engine runs every system of a frame and ends the frame; frames
\* follow one another as long as the environment provides them, and without
\* end once the game is over.
SpecLive ==
    /\ InitLive /\ [][NextLive]_vars
    /\ WF_vars(BeginFrame) /\ WF_vars(IdleFrame) /\ WF_vars(EndFrame)
    /\ SystemsRun

\* a Player whose health is used up is live
PlayerDead == \E p \in Players(entities) : p.health <= 0

\* update_ally_health is about to find the Player dead in a running game
Dying ==
    /\ Turn("update_ally_health")
    /\ game_state.state = "Running"
    /\ PlayerDead

\* The steps of a death: update_ally_health requests the despawn of a dead
\* Player, the frame boundary leaves no dead Player in a running game, and
\* update_game_state ends a running game that has no Player.
DeathStep ==
    /\ Dying => \A p \in Players(entities) :
                   p.health <= 0 => p.id \in despawned'
    /\ (pc' = 0 /\ game_state'.state = "Running") => ~PlayerDead'
    /\ (Turn("update_game_state") /\ game_state.state = "Running"
          /\ Players(entities) = {}) => game_state'.state = "Ended"
    /\ (Turn("update_game_state") /\ game_state.state = "Running"
          /\ Players(entities) # {}) => game_state'.state = "Running"

\* C25: a Player found with health <= 0 by update_ally_health in a running
\* game is requested for despawn and is gone after the frame boundary; the
\* first update_game_state that runs after the boundary, and no earlier one,
\* sets the state to Ended; so a death that is followed by a frame leads to
\* Ended, and no behaviour keeps a dead Player in a running game forever.
C25_DeathEndsRun ==
    /\ [][DeathStep]_vars
    /\ (Dying /\ frame < env.frames) ~> (game_state.state = "Ended")
    /\ []<>~(PlayerDead /\ game_state.state = "Running")

\* the game is over in the frame after the one in which the Player died:
\* the Player is gone and the restart menu is requested
C25_Witness ==
    /\ pc = Len(schedule) + 1
    /\ game_state.state = "Ended"
    /\ Players(entities) = {}
    /\ \E m \in spawned : m.kind = "Menu"

\* ------------------------------------------------------------ lifetimes

\* the entity ids in use
MaxIds == 16

EntityIds == 0..MaxIds

\* the kinds of entity the simulation spawns and is to despawn
Mortal == {"Enemy", "Laser", "UberLaser", "Grenade"}

\* an entity that the simulation spawned, and is to despawn, has the id
Live(id) == \E e \in entities : e.kind \in Mortal /\ e.id = id

\* C26: while frames keep occurring, every Enemy, Laser, UberLaser and
\* Grenade that is live is eventually despawned.
C26_AllDespawned ==
    \A id \in EntityIds : Live(id) ~> (~Live(id) \/ Truncated)

\* ------------------------------------------------------------ game over

\* the game is over and the frame boundary of the transition has passed:
\* the game-over menu is live
AfterGameOver ==
    /\ game_state.state = "Ended"
    /\ RestartMenus(entities) # {}

\* no Enemy, Upgrade, SupportUnit or Player, and no tagged entity but the
\* game-over menu
Clean(S) ==
    /\ Enemies(S) \cup Upgrades(S) \cup Allies(S) = {}
    /\ Tagged(S) = RestartMenus(S)

\* C27: from the frame boundary that follows the transition to Ended, and
\* as long as the state is Ended, no Enemy, Upgrade, SupportUnit or Player
\* is live and the game-over menu is the only entity with the
\* DespawnOnGameRestart tag.
C27_CleanWorld == AfterGameOver => Clean(entities)

\* ------------------------------------------------------------ laser allies

\* the laser allies that are live or passed to engine.spawn, and not
\* requested for despawn
StandingLaserAllies ==
    {e \in LaserAllies(entities \cup spawned) : e.id \notin despawned}

\* C28: while the state is Running, laser_ally_count is the number of laser
\* allies created and not found dead: at a frame boundary, the number of
\* live SupportUnit entities whose weapon is Laser; and it is not negative.
C28_LaserAllyCount ==
    game_state.state = "Running" =>
        /\ game_state.laser_ally_count = Cardinality(StandingLaserAllies)
        /\ pc = 0 => game_state.laser_ally_count =
                         Cardinality(LaserAllies(entities))
        /\ game_state.laser_ally_count >= 0

\* at the end of a frame of a running game a laser ally that was found dead
\* is about to be removed, and is counted no more
C28_Witness ==
    /\ pc = Len(schedule) + 1
    /\ game_state.state = "Running"
    /\ \E e \in LaserAllies(entities) : e.health <= 0 /\ e.id \in despawned
    /\ game_state.laser_ally_count =
          Cardinality(LaserAllies(entities \cup spawned)) - 1

\* ------------------------------------------------------------ confirm edges

\* update_game_state, lines 1216-1228: what the branch of a running game
\* makes of the game state, whatever the input; nobody: the Player query is
\* empty
Evolved(gs, dt, nobody) ==
    LET timed == [gs EXCEPT !.wave_timer = @ + dt]
        gated == [timed EXCEPT !.spawning_enemies = (timed.wave_timer >= 0)]
        waved == IF gated.wave_timer > gated.wave.duration
                 THEN start_next_wave(gated) ELSE gated
    IN  IF nobody
        THEN [waved EXCEPT !.state = "Ended", !.spawning_enemies = FALSE]
        ELSE waved

\* update_game_state takes a confirm edge in a running game
ConfirmedRunning ==
    /\ Turn("update_game_state")
    /\ game_state.state = "Running"
    /\ Confirm

\* In a running game a confirm edge changes nothing in update_game_state:
\* the game state is that of the branch of a running game, no Player is
\* passed to engine.spawn, and while a Player is live nothing is spawned or
\* requested for despawn.
NoRestart ==
    ConfirmedRunning =>
        /\ game_state' = Evolved(game_state, delta_time, Players(entities) = {})
        /\ Players(spawned') = Players(spawned)
        /\ Players(entities) # {} =>
              /\ game_state'.state = "Running"
              /\ spawned' = spawned
              /\ despawned' = despawned
        /\ Players(entities) = {} =>
              /\ game_state'.state = "Ended"
              /\ despawned' = despawned \cup Ids(Tagged(entities))

\* C29: in a running game a confirm edge, of the space key or of a touch,
\* does not restart the run: update_game_state does not call start(), does
\* not request the despawn of the tagged entities while the Player lives
\* and spawns no Player; the game state evolves as without the edge.
C29_NoRestart == [][NoRestart]_vars

\* a touch that began in this frame has moved the Player of a running game,
\* and update_game_state has left the run as it was
C29_Witness ==
    /\ pc = Len(schedule) + 1
    /\ game_state.state = "Running"
    /\ Len(input.touches) = 1 /\ input.touches[1].phase = "Began"
    /\ game_state.wave_timer > 1000
    /\ \E p \in Players(entities) : p.x = 3000
    /\ Players(spawned) = {}
    /\ despawned \cap Ids(Players(entities)) = {}

\* ------------------------------------------------------------ no confirm

\* the frame's input has no confirm edge: the space key was not pressed in
\* this frame, and no single touch began
NoEdge ==
    /\ ~input.key_space.pressed_this_frame
    /\ ~(Len(input.touches) = 1 /\ input.touches[1].phase = "Began")

\* update_game_state runs in state Start or Ended without a confirm edge
Waiting ==
    /\ Turn("update_game_state")
    /\ game_state.state \in {"Start", "Ended"}
    /\ NoEdge

\* C30: in state Start or Ended and without a confirm edge update_game_state
\* leaves every field of the game state as it was, wave_timer included, and
\* requests no spawn and no despawn; a space key that is held down is no
\* edge.
C30_Idle ==
    [][Waiting => /\ game_state' = game_state
                  /\ spawned' = spawned
                  /\ despawned' = despawned]_vars

\* update_game_state has run in state Start with the space key held down,
\* in a frame that took time, and the game has not started
C30_Witness ==
    /\ pc = Len(schedule) + 1
    /\ game_state.state = "Start"
    /\ input.key_space.pressed
    /\ ~input.key_space.pressed_this_frame
    /\ delta_time > 0
    /\ spawned = {} /\ despawned = {}

\* ------------------------------------------------------------ full health

\* the Health descriptions of the current wave
HealthUpgrades ==
    {d \in {game_state.wave.upgrades[k] :
                k \in 1..Len(game_state.wave.upgrades)} : d.type = "Health"}

\* C31: the health of a Player, live or passed to engine.spawn, is at most
\* 100: a Player is spawned with 100, every enemy description has a positive
\* damage, and a Health pickup stops at 100; so spawn_upgrades skips the
\* Health upgrade, by its test health == 100, exactly when a Player has the
\* largest health there is.
C31_HealthAtMost100 ==
    /\ \A p \in Players(entities \cup spawned) : p.health <= 100
    /\ \A p \in Players(spawned) : p.health = 100
    /\ \A w \in 1..Len(WAVE_DESCRIPTIONS) :
          \A k \in 1..Len(WAVE_DESCRIPTIONS[w].enemies) :
             WAVE_DESCRIPTIONS[w].enemies[k].damage > 0
    /\ \A desc \in HealthUpgrades :
          Skipped(desc, game_state) <=>
              \E p \in Players(entities) : p.health >= 100

\* update_upgrades has run in a wave with a Health upgrade: a Health
\* upgrade at the Player is requested for despawn and the Player, who was
\* hit before, has 100 again
C31_Witness ==
    /\ Turn("update_ally_health")
    /\ HealthUpgrades # {}
    /\ \E u \in Upgrades(entities) : \E p \in Players(entities) :
          /\ u.type = "Health"
          /\ u.id \in despawned
          /\ Within(u.x, u.z, p.x, p.z, UPGRADE_RADIUS)
          /\ p.health = 100

====
